---- MODULE Spec2Model ----
(***************************************************************************)
(* ZipToRepo: the two deployment orchestrators (deployZipToGitHub in       *)
(* src/lib/github.ts, deployZipToFirebase in the Firebase library) and the *)
(* wizard's handleDeploy that starts them.                                 *)
(*                                                                         *)
(* A deployment is an async function.  One action of the model is one run  *)
(* of the JavaScript event loop: the arrival of a provider response (or of *)
(* a timer) together with the synchronous code that follows it up to the   *)
(* next await.  A request that is in flight is a position of pc (main      *)
(* flow) or an upState of "call" (one upload of the current batch).        *)
(***************************************************************************)
EXTENDS Integers, Sequences, FiniteSets, Bags, TLC

VARIABLES
  provider,        \* wizard state: "github" | "firebase"
  analysis,        \* ZipAnalysis handed to the deploy call ([files |-> ...])
  patches,         \* wizard state: AutoFixPatch list
  customDomain,    \* wizard state, as code points: << >> when none
  token,           \* the credential handed to the deploy call, "" when missing
  archive,         \* wizard: the entries of the dropped zip, << >> when none is modelled
  fixes,           \* history: the number of runs of handleFixPaths
  stale,           \* the effect on [analysis, repoName] has yet to run
  given,           \* history: the analysis last passed to fixAbsolutePaths, after the call
  nameInput,       \* the wizard's repoName state, as typed
  pending,         \* the generateAutoFixes calls that are awaiting a file read
  pc,              \* position of the deploy call's main flow
  events,          \* the statuses passed to onStatus, in order
  calls,           \* provider operation -> number of requests issued
  failures,        \* number of upload requests that failed so far
  result,          \* URL returned by the deploy call, "" while none
  owner,           \* github: user.login
  defaultBranch,   \* github
  filesToUpload,   \* github: prepared upload list
  latestCommitSha, \* github: "" when no prior commit was read
  baseTreeSha,     \* github: "" when no base tree was read
  treeItems,       \* github: the entries pushed by completed blob uploads, as a bag
                   \* (a tree is a map from path to entry: their order says nothing)
  batchStart,      \* index (1-based) of the first item of the current batch
  upState,         \* per batch item: "pending" | "call" | "sleep" | "done" | "failed"
  retries,         \* github: per file, the retries local of its upload (0: no upload running)
  pagesUrl,        \* github
  filesByPath,     \* firebase: path -> hash, as sent to populateFiles
  requiredHashes,  \* firebase: uploadRequiredHashes of the populate response
  failedOps,       \* history: the operations that ended in a failure (for a
                   \* blob upload: the failure of its last attempt)
  createStatus,    \* history: status of the repository create response, 0 before it
  readBack         \* history: html_url read back by getPages ("none" before, "failed")

vars == <<provider, analysis, patches, customDomain, token, archive, fixes, stale, given, nameInput,
          pending, pc, events, calls,
          failures, result, owner, defaultBranch, filesToUpload,
          latestCommitSha, baseTreeSha, treeItems, batchStart, upState,
          retries, pagesUrl, filesByPath, requiredHashes, failedOps,
          createStatus, readBack>>

inputVars == <<provider, analysis, patches, customDomain, token, archive, fixes, stale, given,
               nameInput, pending>>
ghVars == <<owner, defaultBranch, filesToUpload, latestCommitSha, baseTreeSha,
            treeItems, retries, pagesUrl, createStatus, readBack>>
fbVars == <<filesByPath, requiredHashes>>

----------------------------------------------------------------------------
(* Bounds of the model.                                                    *)

MaxFiles == 6        \* manifest files of an analysis
MaxPatches == 2      \* patches handed to a deployment
MaxFlaky == 2        \* uploads of one batch that may fail: its first MaxFlaky
MaxEntries == 3      \* entries of a dropped zip
MaxFixes == 1        \* runs of handleFixPaths on one analysis
MaxUploads == 201    \* files of the largest manifest of the blob phase

(* Program constants.                                                      *)

BATCH_SIZE == 5

\* Variant of RETRIES: one attempt fewer.
RetriesTwo == 3 - 1

RETRIES == 3

repoName == "site"
Login == "alice"

Min(a, b) == IF a < b THEN a ELSE b

\* The wizard's analysis state before a zip was analysed (null).
Null == [null |-> TRUE]

----------------------------------------------------------------------------
(* Data.                                                                   *)

\* new TextEncoder().encode(s): UTF-8 of a string given as code points
\* (below 2048: one byte under 128, two bytes otherwise).
RECURSIVE TextEncode(_)
TextEncode(s) ==
  IF s = << >> THEN << >>
  ELSE (IF Head(s) < 128 THEN <<Head(s)>>
        ELSE <<192 + (Head(s) \div 64), 128 + (Head(s) % 64)>>)
       \o TextEncode(Tail(s))

\* Buffer.from(content).toString("base64"), and the provider's decoding of it.
Base64(bytes) == [encoding |-> "base64", of |-> bytes]
\* Variant of Base64Decode: the first byte is lost.
Base64DecodeTail(b) == SubSeq(b.of, 2, Len(b.of))

Base64Decode(b) == b.of

\* The object name the Git provider gives a blob: a function of its bytes.
BlobSha(bytes) == <<"blob", bytes>>

PathPool == <<"index.html", "app.js", "CNAME", "style.css", "a.png", "b.png",
              "c.png", "d.png", "e.png">>

\* analysis.files: the first n paths of the pool, each with its entry's bytes.
ManifestOf(n) == [k \in 1..n |-> [path |-> PathPool[k], content |-> <<k>>]]

PatchPool == { [path |-> ".github/workflows/deploy.yml", content |-> <<119>>],
               [path |-> ".github/workflows/deploy.yml", content |-> <<120>>],
               [path |-> "index.html", content |-> <<233>>],
               [path |-> "CNAME", content |-> <<99>>] }

WorkflowPatch == [path |-> ".github/workflows/deploy.yml", content |-> <<119>>]
IndexPatch == [path |-> "index.html", content |-> <<233>>]

RECURSIVE SeqsUpTo(_, _)
SeqsUpTo(S, n) ==
  IF n = 0 THEN { << >> }
  ELSE LET shorter == SeqsUpTo(S, n - 1)
       IN  shorter \cup { Append(s, x) : s \in shorter, x \in S }

Status(step, type) == [step |-> step, type |-> type, details |-> "", progress |-> -1]

Ops == {"getAuthenticated", "createForAuthenticatedUser", "repos.get", "getRef",
        "getCommit", "createBlob", "createTree", "createCommit", "updateRef",
        "createPagesSite", "getPages",
        "versions.create", "populateFiles", "upload", "finalize", "releases.create"}

\* Variant of Issue: every request is sent a second time.
IssueTwice(c, op, n) == [c EXCEPT ![op] = @ + 2 * n]

\* n requests of operation op are sent to the provider.
Issue(c, op, n) == [c EXCEPT ![op] = @ + n]

----------------------------------------------------------------------------
(* deployZipToGitHub, the file preparation step.                           *)

IndexOfPath(files, path) ==
  IF \E k \in 1..Len(files) : files[k].path = path
  THEN CHOOSE k \in 1..Len(files) :
         files[k].path = path /\ \A j \in 1..(k - 1) : files[j].path # path
  ELSE 0

\* Variant of ApplyPatch: always push.
ApplyPatchAppend(files, patch) ==
  Append(files, [path |-> patch.path, content |-> TextEncode(patch.content)])

\* One patch: replace the content of the first entry at its path, or push.
ApplyPatch(files, patch) ==
  LET existingIndex == IndexOfPath(files, patch.path)
      patchContent == TextEncode(patch.content)
  IN  IF existingIndex # 0
      THEN [files EXCEPT ![existingIndex].content = patchContent]
      ELSE Append(files, [path |-> patch.path, content |-> patchContent])

RECURSIVE ApplyPatches(_, _)
ApplyPatches(files, ps) ==
  IF ps = << >> THEN files
  ELSE ApplyPatches(ApplyPatch(files, Head(ps)), Tail(ps))

\* Add CNAME if a custom domain is provided.
AddCname(files, domain) ==
  IF domain # << >>
  THEN Append(files, [path |-> "CNAME", content |-> TextEncode(domain)])
  ELSE files

\* The loop over analysis.files: each entry is read and pushed with its path.
ReadEntries(manifest) ==
  [k \in DOMAIN manifest |-> [path |-> manifest[k].path, content |-> manifest[k].content]]

PrepareFiles(manifest, ps, domain) ==
  AddCname(ApplyPatches(ReadEntries(manifest), ps), domain)

PrepareEvents(ps, domain) ==
  (IF Len(ps) > 0 THEN <<Status("Applying auto-fixes...", "info")>> ELSE << >>)
  \o (IF domain # << >> THEN <<Status("Adding CNAME...", "info")>> ELSE << >>)
  \o <<Status("Prepared files for upload.", "info")>>

----------------------------------------------------------------------------
(* deployZipToGitHub.                                                      *)

\* Variants of Catch: a status passed on after the error status; no error status.
CatchThenStatus(evs) ==
  /\ events' = evs \o <<Status("Deployment failed", "error"),
                         Status("Cleaning up...", "info")>>
  /\ pc' = "failed"

CatchSilent(evs) ==
  /\ events' = evs
  /\ pc' = "failed"

\* The outer catch: the error status is passed to onStatus, then the error
\* is rethrown to the caller.
Catch(evs) ==
  /\ events' = Append(evs, Status("Deployment failed", "error"))
  /\ pc' = "failed"

\* Variant of Fail: the catch does not rethrow, the call returns.
FailNoRethrow(op, evs) ==
  /\ events' = Append(evs, Status("Deployment failed", "error"))
  /\ pc' = "done"
  /\ failedOps' = failedOps \cup {op}

\* A failure of operation op that reaches the outer catch.
Fail(op, evs) ==
  /\ Catch(evs)
  /\ failedOps' = failedOps \cup {op}

\* Variants of BatchItems: no slicing, every remaining item at once; a
\* slice that starts over from the first item.
BatchItemsAll(start, n) == start..n

BatchItemsFromFirst(start, n) == 1..Min(start + BATCH_SIZE - 1, n)

\* batch = items.slice(i, i + BATCH_SIZE), as the indices start..(start + 4).
BatchItems(start, n) == start..Min(start + BATCH_SIZE - 1, n)

\* Variant of BatchDone: the loop goes on at the first upload that is over.
BatchDoneAny(st, start, n) == \E g \in start..Min(start + 4, n) : st[g] = "done"

\* Variant of BatchDone: Promise.all never resolves.
BatchDoneNever(st, start, n) == st # st

\* await Promise.all(batch.map(...)) resolves: every upload of the batch is over.
BatchDone(st, start, n) == \A g \in BatchItems(start, n) : st[g] = "done"

\* The upload requests the provider may fail: the uploads of a batch are
\* alike, and so are the batches after the second, so failures are confined
\* to the first MaxFlaky of each of the first two batches.
MayFail(f) == f <= 2 * BATCH_SIZE /\ ((f - 1) % BATCH_SIZE) + 1 <= MaxFlaky

\* Variant of Progress: the percentage is rounded down.
ProgressFloor(start, n) == (100 * Min(start - 1 + BATCH_SIZE, n)) \div n

\* Math.round((Math.min(i + BATCH_SIZE, n) / n) * 100), i the 0-based start.
Progress(start, n) ==
  LET upto == Min(start - 1 + BATCH_SIZE, n)
  IN  (200 * upto + n) \div (2 * n)

ProgressStatus(start, n) ==
  [step |-> "Uploaded files...", type |-> "info", details |-> "",
   progress |-> Progress(start, n)]

\* "6. Create Tree": reached when the batch loop is over.
GhCreateTree(evs) ==
  /\ events' = Append(evs, Status("Creating file tree...", "info"))
  /\ calls' = Issue(calls, "createTree", 1)
  /\ pc' = "createTree"

\* One turn of the batch loop from index start: the createBlob requests of
\* the batch are all issued at once by batch.map; past the end, the loop exits.
GhBatchLoop(evs, start, st, rt) ==
  LET n == Len(filesToUpload)
      batch == BatchItems(start, n)
  IN  IF start > n
      THEN /\ GhCreateTree(evs)
           /\ upState' = st
           /\ retries' = rt
           /\ batchStart' = start
      ELSE /\ events' = evs
           /\ upState' = [f \in 1..n |-> IF f \in batch THEN "call" ELSE st[f]]
           /\ retries' = [f \in 1..n |-> IF f \in batch THEN RETRIES ELSE rt[f]]
           /\ calls' = Issue(calls, "createBlob", Cardinality(batch))
           /\ batchStart' = start
           /\ pc' = "blobs"

\* "5. Create Blobs": entered after the ref/commit read.
GhStartBlobs(evs) ==
  GhBatchLoop(Append(evs, Status("Uploading files...", "info")), 1, upState, retries)

GhStart ==
  /\ provider = "github"
  /\ analysis # Null
  /\ pc = "start"
  /\ events' = Append(events, Status("Authenticating...", "info"))
  /\ calls' = Issue(calls, "getAuthenticated", 1)
  /\ pc' = "getAuthenticated"
  /\ UNCHANGED <<inputVars, ghVars, fbVars, failures, failedOps, result,
                 batchStart, upState>>

\* The provider answers an unauthenticated request (empty auth) with 401.
GhAuthenticated ==
  /\ pc = "getAuthenticated"
  /\ \/ /\ token # ""
        /\ owner' = Login
        /\ events' = events \o <<Status("Authenticated", "success"),
                                 Status("Setting up repository...", "info")>>
        /\ calls' = Issue(calls, "createForAuthenticatedUser", 1)
        /\ pc' = "createRepo"
        /\ UNCHANGED failedOps
     \/ /\ Fail("getAuthenticated", events)
        /\ UNCHANGED <<owner, calls>>
  /\ UNCHANGED <<inputVars, fbVars, failures, result, batchStart, upState,
                 defaultBranch, filesToUpload, latestCommitSha, baseTreeSha,
                 treeItems, retries, pagesUrl, createStatus, readBack>>

\* "3. Process Files from Analysis": the entries are read one by one.
GhStartPrepare(evs) ==
  /\ events' = Append(evs, Status("Preparing files from analysis...", "info"))
  /\ pc' = "prepare"

\* repo.default_branch: of a repository just created, and of one that existed.
NewBranches == {"main"}
ExistingBranches == {"master"}

\* Variant of IsRepoConflict: no conflict handling.
IsRepoConflictNever(status) == FALSE

\* The inner catch of the repository create: error.status === 422.
IsRepoConflict(status) == status = 422

GhRepoCreated ==
  /\ pc = "createRepo"
  /\ \/ \E status \in {201} : \E branch \in NewBranches :
          /\ createStatus' = status
          /\ defaultBranch' = branch
          /\ GhStartPrepare(Append(events, Status("Repository created successfully.", "success")))
          /\ UNCHANGED <<calls, failedOps>>
     \/ \E status \in {422, 409, 500} :
          /\ createStatus' = status
          /\ IF IsRepoConflict(status)
             THEN /\ events' = Append(events, Status("Repository already exists. Fetching details...", "info"))
                  /\ calls' = Issue(calls, "repos.get", 1)
                  /\ pc' = "getRepo"
                  /\ UNCHANGED <<defaultBranch, failedOps>>
             ELSE /\ Fail("createForAuthenticatedUser", events)
                  /\ UNCHANGED <<defaultBranch, calls>>
  /\ UNCHANGED <<inputVars, fbVars, failures, result, batchStart, upState,
                 owner, filesToUpload, latestCommitSha, baseTreeSha,
                 treeItems, retries, pagesUrl, readBack>>

GhRepoFetched ==
  /\ pc = "getRepo"
  /\ \/ \E branch \in ExistingBranches :
          /\ defaultBranch' = branch
          /\ GhStartPrepare(events)
          /\ UNCHANGED failedOps
     \/ /\ Fail("repos.get", events)
        /\ UNCHANGED defaultBranch
  /\ UNCHANGED <<inputVars, fbVars, failures, result, batchStart, upState, calls,
                 owner, filesToUpload, latestCommitSha, baseTreeSha,
                 treeItems, retries, pagesUrl, createStatus, readBack>>

\* The entries are read, the patches and the CNAME applied, and the ref read
\* ("4. Get the latest commit SHA") is issued; or reading an entry fails.
GhPrepared ==
  /\ pc = "prepare"
  /\ \/ LET prepared == PrepareFiles(analysis.files, patches, customDomain)
        IN  /\ filesToUpload' = prepared
            /\ events' = events \o PrepareEvents(patches, customDomain)
            /\ upState' = [f \in 1..Len(prepared) |-> "pending"]
            /\ retries' = [f \in 1..Len(prepared) |-> 0]
            /\ calls' = Issue(calls, "getRef", 1)
            /\ pc' = "getRef"
            /\ UNCHANGED failedOps
     \/ /\ Len(analysis.files) > 0
        /\ Fail("entry.async", events)
        /\ UNCHANGED <<filesToUpload, upState, retries, calls>>
  /\ UNCHANGED <<inputVars, fbVars, failures, result, batchStart,
                 owner, defaultBranch, latestCommitSha, baseTreeSha,
                 treeItems, pagesUrl, createStatus, readBack>>

NoCommit == Status("No existing commit found. Starting fresh...", "info")

\* Any failure of the ref read lands in the inner catch, which goes on.
GhRefRead ==
  /\ pc = "getRef"
  /\ \/ /\ latestCommitSha' = "commit0"
        /\ calls' = Issue(calls, "getCommit", 1)
        /\ pc' = "getCommit"
        /\ UNCHANGED <<events, upState, retries, batchStart, failedOps>>
     \/ \E status \in {404, 500} :
          /\ failedOps' = failedOps \cup {"getRef"}
          /\ GhStartBlobs(Append(events, NoCommit))
          /\ UNCHANGED latestCommitSha
  /\ UNCHANGED <<inputVars, fbVars, failures, result,
                 owner, defaultBranch, filesToUpload, baseTreeSha,
                 treeItems, pagesUrl, createStatus, readBack>>

\* The commit read sits in the same try block as the ref read.
GhCommitRead ==
  /\ pc = "getCommit"
  /\ \/ /\ baseTreeSha' = "tree0"
        /\ GhStartBlobs(events)
        /\ UNCHANGED failedOps
     \/ /\ failedOps' = failedOps \cup {"getCommit"}
        /\ GhStartBlobs(Append(events, NoCommit))
        /\ UNCHANGED baseTreeSha
  /\ UNCHANGED <<inputVars, fbVars, failures, result,
                 owner, defaultBranch, filesToUpload, latestCommitSha,
                 treeItems, pagesUrl, createStatus, readBack>>

\* The response of one createBlob request.  On success the tree entry is
\* pushed; when that completes the batch, Promise.all resolves and the loop
\* goes on.  On failure retries is decremented: at 0 the error is thrown out
\* of the upload, which rejects Promise.all (once) and lands in the outer
\* catch; otherwise the upload waits 1s.  The other uploads of a rejected
\* batch run on.
GhBlobCreated(f) ==
  /\ provider = "github"
  /\ upState[f] = "call"
  /\ \/ LET st == [upState EXCEPT ![f] = "done"]
            rt == [retries EXCEPT ![f] = 0]   \* the upload returns: its local is gone
            n == Len(filesToUpload)
            sha == BlobSha(Base64Decode(Base64(filesToUpload[f].content)))
        IN  /\ treeItems' = treeItems (+) SetToBag({[path |-> filesToUpload[f].path, sha |-> sha]})
            /\ IF pc = "blobs" /\ BatchDone(st, batchStart, n)
               THEN GhBatchLoop(Append(events, ProgressStatus(batchStart, n)),
                                batchStart + BATCH_SIZE, st, rt)
               ELSE /\ upState' = st
                    /\ retries' = rt
                    /\ UNCHANGED <<events, calls, pc, batchStart>>
            /\ UNCHANGED <<failures, failedOps>>
     \/ /\ MayFail(f)
        /\ failures' = failures + 1
        /\ retries' = [retries EXCEPT ![f] = @ - 1]
        /\ IF retries[f] - 1 = 0
           THEN /\ upState' = [upState EXCEPT ![f] = "failed"]
                /\ failedOps' = failedOps \cup {"createBlob"}
                /\ IF pc = "blobs"
                   THEN Catch(events)
                   ELSE UNCHANGED <<events, pc>>
           ELSE /\ upState' = [upState EXCEPT ![f] = "sleep"]
                /\ UNCHANGED <<events, pc, failedOps>>
        /\ UNCHANGED <<treeItems, calls, batchStart>>
  /\ UNCHANGED <<inputVars, fbVars, result, owner, defaultBranch, filesToUpload,
                 latestCommitSha, baseTreeSha, pagesUrl, createStatus, readBack>>

\* The 1s wait of a failed upload is over: the next attempt is issued.
GhBlobRetry(f) ==
  /\ provider = "github"
  /\ upState[f] = "sleep"
  /\ upState' = [upState EXCEPT ![f] = "call"]
  /\ calls' = Issue(calls, "createBlob", 1)
  /\ UNCHANGED <<inputVars, ghVars, fbVars, pc, events, failures, failedOps,
                 result, batchStart>>

GhTreeCreated ==
  /\ pc = "createTree"
  /\ \/ /\ events' = Append(events, Status("Creating commit...", "info"))
        /\ calls' = Issue(calls, "createCommit", 1)
        /\ pc' = "createCommit"
        /\ UNCHANGED failedOps
     \/ /\ Fail("createTree", events)
        /\ UNCHANGED calls
  /\ UNCHANGED <<inputVars, ghVars, fbVars, failures, result, batchStart, upState>>

GhCommitCreated ==
  /\ pc = "createCommit"
  /\ \/ /\ events' = Append(events, Status("Updating repository reference...", "info"))
        /\ calls' = Issue(calls, "updateRef", 1)
        /\ pc' = "updateRef"
        /\ UNCHANGED failedOps
     \/ /\ Fail("createCommit", events)
        /\ UNCHANGED calls
  /\ UNCHANGED <<inputVars, ghVars, fbVars, failures, result, batchStart, upState>>

DefaultPagesUrl(login, repo) == "https://" \o login \o ".github.io/" \o repo \o "/"

\* "9. Enable GitHub Pages": the status, the default URL, then a 2s wait.
GhRefUpdated ==
  /\ pc = "updateRef"
  /\ \/ /\ events' = Append(events, Status("Enabling GitHub Pages...", "info"))
        /\ pagesUrl' = DefaultPagesUrl(owner, repoName)
        /\ pc' = "waitPages"
        /\ UNCHANGED failedOps
     \/ /\ Fail("updateRef", events)
        /\ UNCHANGED pagesUrl
  /\ UNCHANGED <<inputVars, fbVars, failures, result, batchStart, upState, calls,
                 owner, defaultBranch, filesToUpload, latestCommitSha,
                 baseTreeSha, treeItems, retries, createStatus, readBack>>

GhPagesWaited ==
  /\ pc = "waitPages"
  /\ calls' = Issue(calls, "createPagesSite", 1)
  /\ pc' = "createPagesSite"
  /\ UNCHANGED <<inputVars, ghVars, fbVars, events, failures, failedOps, result,
                 batchStart, upState>>

\* html_url of a Pages response; "" stands for an absent one.
HtmlUrls == {"", "https://www.example.com/"}

\* Variant of OrElse: no fallback.
OrElseFirst(x, y) == x

\* x || y on strings.
OrElse(x, y) == IF x # "" THEN x ELSE y

\* Variant of GhComplete: the final status carries the default URL.
GhCompleteDefault(evs, url) ==
  /\ events' = Append(evs, [step |-> "Deployment complete!", type |-> "success",
                            details |-> DefaultPagesUrl(owner, repoName), progress |-> -1])
  /\ result' = url
  /\ pc' = "done"

\* The final status and the return.
GhComplete(evs, url) ==
  /\ events' = Append(evs, [step |-> "Deployment complete!", type |-> "success",
                            details |-> url, progress |-> -1])
  /\ result' = url
  /\ pc' = "done"

\* The inner catch of the Pages enable: err.status === 409.
IsPagesConflict(status) == status = 409

GhPagesCreated ==
  /\ pc = "createPagesSite"
  /\ \/ \E html_url \in HtmlUrls :
          /\ pagesUrl' = OrElse(html_url, pagesUrl)
          /\ GhComplete(Append(events, Status("GitHub Pages enabled successfully!", "success")),
                        OrElse(html_url, pagesUrl))
          /\ UNCHANGED <<calls, failedOps>>
     \/ \E status \in {409, 500} :
          IF IsPagesConflict(status)
          THEN /\ events' = Append(events, Status("GitHub Pages already enabled.", "info"))
               /\ calls' = Issue(calls, "getPages", 1)
               /\ pc' = "getPages"
               /\ UNCHANGED <<pagesUrl, result, failedOps>>
          ELSE /\ failedOps' = failedOps \cup {"createPagesSite"}
               /\ GhComplete(Append(events, Status("Could not auto-enable Pages (Check Settings manually).", "info")),
                             pagesUrl)
               /\ UNCHANGED <<pagesUrl, calls>>
  /\ UNCHANGED <<inputVars, fbVars, failures, batchStart, upState,
                 owner, defaultBranch, filesToUpload, latestCommitSha,
                 baseTreeSha, treeItems, retries, createStatus, readBack>>

\* The read-back of the existing Pages site; its failure is ignored.
GhPagesRead ==
  /\ pc = "getPages"
  /\ \/ \E html_url \in HtmlUrls :
          /\ readBack' = html_url
          /\ pagesUrl' = OrElse(html_url, pagesUrl)
          /\ GhComplete(events, OrElse(html_url, pagesUrl))
          /\ UNCHANGED failedOps
     \/ /\ readBack' = "failed"
        /\ failedOps' = failedOps \cup {"getPages"}
        /\ GhComplete(events, pagesUrl)
        /\ UNCHANGED pagesUrl
  /\ UNCHANGED <<inputVars, fbVars, failures, batchStart, upState, calls,
                 owner, defaultBranch, filesToUpload, latestCommitSha,
                 baseTreeSha, treeItems, retries, createStatus>>

GhNext ==
  \/ GhStart
  \/ GhAuthenticated
  \/ GhRepoCreated
  \/ GhRepoFetched
  \/ GhPrepared
  \/ GhRefRead
  \/ GhCommitRead
  \/ \E f \in 1..Len(filesToUpload) : GhBlobCreated(f)
  \/ \E f \in 1..Len(filesToUpload) : GhBlobRetry(f)
  \/ GhTreeCreated
  \/ GhCommitCreated
  \/ GhRefUpdated
  \/ GhPagesWaited
  \/ GhPagesCreated
  \/ GhPagesRead

----------------------------------------------------------------------------
(* deployZipToFirebase.                                                    *)

\* calculateSHA256: the hex digest, a function of the bytes.
Sha256(bytes) == <<"sha256", bytes>>

SiteUrl(siteId) == "https://" \o siteId \o ".web.app"

FbStart ==
  /\ provider = "firebase"
  /\ analysis # Null
  /\ pc = "start"
  /\ events' = Append(events, Status("Creating new version...", "info"))
  /\ calls' = Issue(calls, "versions.create", 1)
  /\ pc' = "versions.create"
  /\ UNCHANGED <<inputVars, ghVars, fbVars, failures, failedOps, result,
                 batchStart, upState>>

\* "3. Calculate Hashes" follows: the entries are read and hashed one by one.
FbVersionCreated ==
  /\ pc = "versions.create"
  /\ \/ /\ token # ""
        /\ events' = events \o <<Status("Version created", "success"),
                                 Status("Calculating file hashes...", "info")>>
        /\ pc' = "hashing"
        /\ UNCHANGED failedOps
     \/ Fail("versions.create", events)
  /\ UNCHANGED <<inputVars, ghVars, fbVars, calls, failures, result, batchStart, upState>>

\* filesByPath of the files handed in (no path of the model starts with "/",
\* so cleanPath is the path): a later file at the same path overwrites.
HashFiles(files) ==
  [p \in {files[k].path : k \in 1..Len(files)} |->
     LET last == CHOOSE k \in 1..Len(files) :
                   files[k].path = p /\ \A j \in (k + 1)..Len(files) : files[j].path # p
     IN  Sha256(files[last].content)]

FbHashed ==
  /\ pc = "hashing"
  /\ \/ /\ filesByPath' = HashFiles(analysis.files)
        /\ events' = Append(events, Status("Registering files...", "info"))
        /\ calls' = Issue(calls, "populateFiles", 1)
        /\ pc' = "populateFiles"
        /\ UNCHANGED failedOps
     \/ /\ Len(analysis.files) > 0
        /\ Fail("entry.async", events)
        /\ UNCHANGED <<filesByPath, calls>>
  /\ UNCHANGED <<inputVars, ghVars, requiredHashes, failures, result, batchStart, upState>>

\* Variant of FbFinalize: the release is requested along with the finalize.
FbFinalizeAndRelease(evs) ==
  /\ events' = Append(evs, Status("Finalizing version...", "info"))
  /\ calls' = Issue(Issue(calls, "finalize", 1), "releases.create", 1)
  /\ pc' = "finalize"

\* "6. Finalize Version".
FbFinalize(evs) ==
  /\ events' = Append(evs, Status("Finalizing version...", "info"))
  /\ calls' = Issue(calls, "finalize", 1)
  /\ pc' = "finalize"

\* One turn of the upload loop over the required hashes req, from index start.
FbBatchLoop(evs, start, st, req) ==
  LET n == Len(req)
      batch == BatchItems(start, n)
  IN  IF start > n
      THEN /\ FbFinalize(evs)
           /\ upState' = st
           /\ batchStart' = start
      ELSE /\ events' = evs
           /\ upState' = [k \in 1..n |-> IF k \in batch THEN "call" ELSE st[k]]
           /\ calls' = Issue(calls, "upload", Cardinality(batch))
           /\ batchStart' = start
           /\ pc' = "uploads"

\* uploadRequiredHashes of a populate response: the hashes the backend does
\* not hold yet, here those of the files from some index on.
RequiredLists(files) ==
  { [k \in 1..(Len(files) - from) |-> Sha256(files[from + k].content)] :
      from \in 0..Len(files) }

FbPopulated ==
  /\ pc = "populateFiles"
  /\ \/ \E req \in RequiredLists(analysis.files) :
          /\ requiredHashes' = req
          /\ IF Len(req) > 0
             THEN FbBatchLoop(Append(events, Status("Uploading new files...", "info")),
                              1, [k \in 1..Len(req) |-> "pending"], req)
             ELSE /\ FbFinalize(Append(events, Status("All files already exist on Firebase.", "info")))
                  /\ UNCHANGED <<upState, batchStart>>
          /\ UNCHANGED failedOps
     \/ /\ Fail("populateFiles", events)
        /\ UNCHANGED <<requiredHashes, calls, upState, batchStart>>
  /\ UNCHANGED <<inputVars, ghVars, filesByPath, failures, result>>

\* The response of one upload request: no retry, a failure is thrown at once.
FbUploaded(k) ==
  /\ provider = "firebase"
  /\ upState[k] = "call"
  /\ \/ LET st == [upState EXCEPT ![k] = "done"]
            n == Len(requiredHashes)
        IN  /\ IF pc = "uploads" /\ BatchDone(st, batchStart, n)
               THEN FbBatchLoop(Append(events, ProgressStatus(batchStart, n)),
                                batchStart + BATCH_SIZE, st, requiredHashes)
               ELSE /\ upState' = st
                    /\ UNCHANGED <<events, calls, pc, batchStart>>
            /\ UNCHANGED <<failures, failedOps>>
     \/ /\ MayFail(k)
        /\ failures' = failures + 1
        /\ upState' = [upState EXCEPT ![k] = "failed"]
        /\ failedOps' = failedOps \cup {"upload"}
        /\ IF pc = "uploads"
           THEN Catch(events)
           ELSE UNCHANGED <<events, pc>>
        /\ UNCHANGED <<calls, batchStart>>
  /\ UNCHANGED <<inputVars, ghVars, fbVars, result>>

FbFinalized ==
  /\ pc = "finalize"
  /\ \/ /\ events' = Append(events, Status("Releasing to live...", "info"))
        /\ calls' = Issue(calls, "releases.create", 1)
        /\ pc' = "releases.create"
        /\ UNCHANGED failedOps
     \/ /\ Fail("finalize", events)
        /\ UNCHANGED calls
  /\ UNCHANGED <<inputVars, ghVars, fbVars, failures, result, batchStart, upState>>

FbReleased ==
  /\ pc = "releases.create"
  /\ \/ /\ events' = Append(events, [step |-> "Deployment complete!", type |-> "success",
                                     details |-> SiteUrl(repoName), progress |-> -1])
        /\ result' = SiteUrl(repoName)
        /\ pc' = "done"
        /\ UNCHANGED failedOps
     \/ /\ Fail("releases.create", events)
        /\ UNCHANGED result
  /\ UNCHANGED <<inputVars, ghVars, fbVars, calls, failures, batchStart, upState>>

FbNext ==
  \/ FbStart
  \/ FbVersionCreated
  \/ FbHashed
  \/ FbPopulated
  \/ \E k \in 1..Len(requiredHashes) : FbUploaded(k)
  \/ FbFinalized
  \/ FbReleased

----------------------------------------------------------------------------
(* Strings.  A JavaScript string is a TLA+ string; charAt, startsWith,     *)
(* endsWith, includes, lastIndexOf and the order of Array.prototype.sort   *)
(* (by code unit) are computed on it.                                      *)

\* The characters of the model's paths, in the order of their code units.
CharOrder == "-./0123456789ABCDEFGHIJKLMNOPQRSTUVWXYZ_abcdefghijklmnopqrstuvwxyz"

Code(c) == CHOOSE i \in 1..Len(CharOrder) : SubSeq(CharOrder, i, i) = c

StartsWith(s, p) == Len(p) <= Len(s) /\ SubSeq(s, 1, Len(p)) = p

EndsWith(s, p) == Len(p) <= Len(s) /\ SubSeq(s, Len(s) - Len(p) + 1, Len(s)) = p

Includes(s, p) == \E i \in 0..(Len(s) - Len(p)) : SubSeq(s, i + 1, i + Len(p)) = p

\* s.substring(n): s without its first n characters.
Substring(s, n) == SubSeq(s, n + 1, Len(s))

\* s.lastIndexOf(c), 0-based, -1 when c does not occur.
LastIndexOf(s, c) ==
  LET at == { i \in 1..Len(s) : SubSeq(s, i, i) = c }
  IN  IF at = {} THEN -1 ELSE (CHOOSE i \in at : \A j \in at : j <= i) - 1

\* s.indexOf(c), 0-based, -1 when c does not occur.
IndexOf(s, c) ==
  LET at == { i \in 1..Len(s) : SubSeq(s, i, i) = c }
  IN  IF at = {} THEN -1 ELSE (CHOOSE i \in at : \A j \in at : i <= j) - 1

\* Variant of StrLess: the shorter string first.
StrLessByLength(a, b) == Len(a) < Len(b)

\* a < b in the default sort order: by code unit, a proper prefix first.
RECURSIVE StrLess(_, _)
StrLess(a, b) ==
  IF b = "" THEN FALSE
  ELSE IF a = "" THEN TRUE
  ELSE IF Head(a) = Head(b) THEN StrLess(Tail(a), Tail(b))
  ELSE Code(Head(a)) < Code(Head(b))

Range(f) == { f[k] : k \in DOMAIN f }

----------------------------------------------------------------------------
(* analyzeZip.  A zip is the sequence of its entries, in the order         *)
(* zip.forEach visits them.  An entry has its relativePath, its dir flag,  *)
(* its uncompressed size and its content; the content of a text file is    *)
(* the sequence of the src/href attributes in it, each with its url.       *)

KB == 1024

\* The length of a text, in characters: attr="url" for each attribute.
RECURSIVE ContentLength(_)
ContentLength(content) ==
  IF content = << >> THEN 0
  ELSE Len(Head(content).attr) + Len(Head(content).url) + 3 + ContentLength(Tail(content))

\* rawFiles: the entries that are no directory and not under __MACOSX.
RawFiles(zip) == SelectSeq(zip, LAMBDA e : ~e.dir /\ ~Includes(e.path, "__MACOSX"))

\* The while loop over first and last: the length of their common start.
RECURSIVE MatchLen(_, _, _)
MatchLen(first, last, i) ==
  IF i < Len(first) /\ i < Len(last) /\ SubSeq(first, i + 1, i + 1) = SubSeq(last, i + 1, i + 1)
  THEN MatchLen(first, last, i + 1)
  ELSE i

\* Variant of PotentialPrefix: the common start is taken as it is.
PotentialPrefixUncut(prefix) == prefix

\* potentialPrefix: prefix cut after its last "/", "" when it has none.
PotentialPrefix(prefix) ==
  LET lastSlash == LastIndexOf(prefix, "/")
  IN  IF lastSlash # -1 THEN SubSeq(prefix, 1, lastSlash + 1) ELSE ""

\* "2. Detect common prefix (root folder)".
CommonPrefix(rawFiles) ==
  IF rawFiles = << >> THEN ""
  ELSE LET paths == { rawFiles[k].path : k \in DOMAIN rawFiles }
           first == CHOOSE p \in paths : \A q \in paths : ~StrLess(q, p)
           last == CHOOSE p \in paths : \A q \in paths : ~StrLess(p, q)
           prefix == SubSeq(first, 1, MatchLen(first, last, 0))
           potentialPrefix == PotentialPrefix(prefix)
       IN  IF potentialPrefix # ""
              /\ \A k \in DOMAIN rawFiles : StartsWith(rawFiles[k].path, potentialPrefix)
           THEN potentialPrefix
           ELSE ""

FinalPath(path, commonPrefix) ==
  IF commonPrefix # "" THEN Substring(path, Len(commonPrefix)) ELSE path

\* "Smart Filtering Logic": the reason a path is ignored for, "" when kept.
IgnoreReason(finalPath) ==
  IF Includes(finalPath, ".DS_Store") \/ Includes(finalPath, "Thumbs.db") THEN "System file"
  ELSE IF Includes(finalPath, "node_modules/") THEN "Dependency folder (should be built)"
  ELSE IF StartsWith(finalPath, ".git/") THEN "Git metadata"
  ELSE IF EndsWith(finalPath, ".log") THEN "Log file"
  ELSE IF EndsWith(finalPath, ".env") THEN "Environment file (security risk)"
  ELSE IF Includes(finalPath, ".vscode/") \/ Includes(finalPath, ".idea/") THEN "Editor config"
  ELSE ""

\* absolutePathRegex.test(content): some src/href is "/..." and not "//...".
IsAbsoluteRef(ref) == StartsWith(ref.url, "/") /\ ~StartsWith(ref.url, "//")

HasAbsoluteRef(content) == \E k \in DOMAIN content : IsAbsoluteRef(content[k])

AbsoluteWarning == "Absolute paths detected (e.g., src=\"/script.js\"). This breaks GitHub Pages."

\* Variant of PushUnique: the text is pushed whether it is there or not.
PushAlways(warnings, text) == Append(warnings, text)

\* if (!warnings.includes(text)) warnings.push(text).
PushUnique(warnings, text) ==
  IF text \in Range(warnings) THEN warnings ELSE Append(warnings, text)

IsTextPath(finalPath) ==
  EndsWith(finalPath, ".html") \/ EndsWith(finalPath, ".css") \/ EndsWith(finalPath, ".js")

\* Variant of Ignore: the ignored file is pushed to the manifest as well.
IgnoreAndKeep(acc, finalPath, ignoreReason) ==
  [acc EXCEPT !.ignoredFiles = Append(@, [path |-> finalPath, reason |-> ignoreReason]),
              !.files = Append(@, [path |-> finalPath, size |-> 0, content |-> << >>])]

\* if (ignoreReason): the file goes to ignoredFiles only.
Ignore(acc, finalPath, ignoreReason) ==
  [acc EXCEPT !.ignoredFiles = Append(@, [path |-> finalPath, reason |-> ignoreReason])]

\* One turn of the loop "3. Process files": the raw file e, with the locals in acc.
ProcessFile(acc, e, commonPrefix) ==
  LET finalPath == FinalPath(e.path, commonPrefix)
      ignoreReason == IgnoreReason(finalPath)
  IN  IF ignoreReason # ""
      THEN Ignore(acc, finalPath, ignoreReason)
      ELSE [acc EXCEPT
              !.files = Append(@, [path |-> finalPath, size |-> e.size, content |-> e.content]),
              !.totalSize = @ + e.size,
              !.hasIndexHtml = @ \/ finalPath = "index.html",
              !.indexHtmlContent =
                 IF finalPath = "index.html" /\ e.size < 500 * KB THEN e.content ELSE @,
              !.hasPackageJson = @ \/ finalPath = "package.json",
              !.hasDistOrBuild = @ \/ StartsWith(finalPath, "dist/")
                                   \/ StartsWith(finalPath, "build/")
                                   \/ StartsWith(finalPath, "out/"),
              !.warnings =
                 IF IsTextPath(finalPath) /\ e.size < KB * KB /\ HasAbsoluteRef(e.content)
                 THEN PushUnique(@, AbsoluteWarning)
                 ELSE @]

RECURSIVE ProcessFiles(_, _, _)
ProcessFiles(acc, rawFiles, commonPrefix) ==
  IF rawFiles = << >> THEN acc
  ELSE ProcessFiles(ProcessFile(acc, Head(rawFiles), commonPrefix), Tail(rawFiles), commonPrefix)

\* Variant of ProjectType: the Angular rule is tried before the Vite rule.
ProjectTypeAngularFirst(files, hasIndexHtml, hasPackageJson) ==
  IF \E k \in DOMAIN files : files[k].path = "angular.json" THEN "Angular"
  ELSE IF \E k \in DOMAIN files : Includes(files[k].path, "vite.config.") THEN "Vite"
  ELSE IF hasIndexHtml THEN "Static Website"
  ELSE "Unknown"

\* "4. Advanced Analysis": the first rule that matches.
ProjectType(files, hasIndexHtml, hasPackageJson) ==
  LET some(P(_)) == \E k \in DOMAIN files : P(files[k].path)
  IN  IF some(LAMBDA p : Includes(p, "vite.config.js") \/ Includes(p, "vite.config.ts"))
      THEN "Vite"
      ELSE IF some(LAMBDA p : Includes(p, "next.config.js") \/ Includes(p, "next.config.mjs")
                                \/ Includes(p, "next.config.ts"))
      THEN "Next.js"
      ELSE IF some(LAMBDA p : p = "angular.json") THEN "Angular"
      ELSE IF some(LAMBDA p : Includes(p, "vue.config.js")) THEN "Vue"
      ELSE IF hasPackageJson /\ some(LAMBDA p : Includes(p, "react-scripts"))
      THEN "Create React App"
      ELSE IF hasIndexHtml THEN "Static Website"
      ELSE IF hasPackageJson THEN "Node.js Project"
      ELSE "Unknown"

\* s.split(c)[0].
BeforeChar(s, c) == IF IndexOf(s, c) = -1 THEN s ELSE SubSeq(s, 1, IndexOf(s, c))

\* The references the loop passes over: remote, protocol-relative, fragment
\* and root-absolute ones (and the empty one, which the regex does not match).
IsSkippedRef(url) ==
  url = "" \/ StartsWith(url, "http") \/ StartsWith(url, "//") \/ StartsWith(url, "#")
  \/ StartsWith(url, "/")

\* The asset a reference names: without query and fragment, without "./".
AssetOf(url) ==
  LET ref == BeforeChar(BeforeChar(url, "?"), "#")
  IN  IF StartsWith(ref, "./") THEN Substring(ref, 2) ELSE ref

MissingWarning(ref) == "Missing asset referenced in index.html: '" \o ref \o "'"

\* "Validate Assets referenced in index.html": the references in order.
RECURSIVE ValidateAssets(_, _, _)
ValidateAssets(warnings, refs, files) ==
  IF refs = << >> THEN warnings
  ELSE LET url == Head(refs).url
           assetExists == \E k \in DOMAIN files : files[k].path = AssetOf(url)
           next == IF IsSkippedRef(url) \/ assetExists
                   THEN warnings
                   ELSE PushUnique(warnings, MissingWarning(AssetOf(url)))
       IN  ValidateAssets(next, Tail(refs), files)

SourceWarning == "Found 'package.json' and 'dist/build' folder. You likely uploaded the source code. Please upload ONLY the contents of the 'dist' or 'build' folder."
BuildWarning == "Detected 'package.json' but no 'index.html' at root. Are you uploading source code? You must build your project first (npm run build) and upload the output folder."
NoIndexWarning == "No 'index.html' found. Your site will not load."
NestedWarning(path) == "'index.html' found at '" \o path \o "'. It must be at the root level. Please unzip, go into the folder, and zip the CONTENTS."

\* Variant of StructureWarnings: a nested index.html is not looked for.
StructureWarningsFlat(warnings, acc, projectType) ==
  IF ~acc.hasIndexHtml /\ ~acc.hasPackageJson /\ projectType = "Unknown"
  THEN Append(warnings, NoIndexWarning)
  ELSE warnings

\* The warnings pushed after the classification.
StructureWarnings(warnings, acc, projectType) ==
  LET w1 == IF acc.hasPackageJson /\ ~acc.hasIndexHtml /\ projectType = "Unknown"
            THEN Append(warnings, IF acc.hasDistOrBuild THEN SourceWarning ELSE BuildWarning)
            ELSE warnings
      nested == { k \in DOMAIN acc.files : EndsWith(acc.files[k].path, "/index.html") }
  IN  IF ~acc.hasIndexHtml /\ ~acc.hasPackageJson /\ projectType = "Unknown"
      THEN IF nested # {}
           THEN Append(w1, NestedWarning(acc.files[CHOOSE k \in nested : \A j \in nested : k <= j].path))
           ELSE Append(w1, NoIndexWarning)
      ELSE w1

analyzeZip(zip) ==
  LET rawFiles == RawFiles(zip)
      commonPrefix == CommonPrefix(rawFiles)
      acc == ProcessFiles([files |-> << >>, ignoredFiles |-> << >>, totalSize |-> 0,
                           hasIndexHtml |-> FALSE, hasPackageJson |-> FALSE,
                           hasDistOrBuild |-> FALSE, indexHtmlContent |-> << >>,
                           warnings |-> << >>],
                          rawFiles, commonPrefix)
      projectType == ProjectType(acc.files, acc.hasIndexHtml, acc.hasPackageJson)
      validated == IF acc.hasIndexHtml
                   THEN ValidateAssets(acc.warnings, acc.indexHtmlContent, acc.files)
                   ELSE acc.warnings
  IN  [fileCount |-> Len(acc.files),
       totalSize |-> acc.totalSize,
       projectType |-> projectType,
       files |-> acc.files,
       warnings |-> StructureWarnings(validated, acc, projectType),
       ignoredFiles |-> acc.ignoredFiles]

(* fixAbsolutePaths.                                                       *)

\* content.replace(regex, ...): every root-absolute src/href becomes "./...".
FixRefs(content) ==
  [k \in DOMAIN content |->
     IF IsAbsoluteRef(content[k])
     THEN [content[k] EXCEPT !.url = "./" \o Substring(@, 1)]
     ELSE content[k]]

FixFile(file) ==
  IF ~IsTextPath(file.path) THEN file
  ELSE IF file.size > KB * KB THEN file
  ELSE IF HasAbsoluteRef(file.content)
  THEN [file EXCEPT !.content = FixRefs(file.content),
                    !.size = ContentLength(FixRefs(file.content))]
  ELSE file

\* Variant of GivenAfter: the files and the warnings are rewritten in place.
GivenRewritten(a) ==
  [a EXCEPT !.files = [k \in DOMAIN a.files |-> FixFile(a.files[k])],
            !.warnings = SelectSeq(a.warnings,
                                   LAMBDA w : ~Includes(w, "Absolute paths detected"))]

\* The analysis passed to fixAbsolutePaths, after the call: map, filter and
\* the spreads build new objects, nothing is assigned to a or to its files.
GivenAfter(a) == a

fixAbsolutePaths(a) ==
  [a EXCEPT !.files = [k \in DOMAIN a.files |-> FixFile(a.files[k])],
            !.warnings = SelectSeq(a.warnings,
                                   LAMBDA w : ~Includes(w, "Absolute paths detected"))]

(* generateAutoFixes.  The content of a configuration file and of a patch  *)
(* is the JavaScript string itself.                                        *)

\* s.indexOf(p) for a string p, 0-based, -1 when p does not occur.
Search(s, p) ==
  LET at == { i \in 0..(Len(s) - Len(p)) : SubSeq(s, i + 1, i + Len(p)) = p }
  IN  IF at = {} THEN -1 ELSE CHOOSE i \in at : \A j \in at : i <= j

\* s.replace(p, r) with a string pattern: the first occurrence only.
\* (The replacement texts of generateAutoFixes hold no $ pattern as long as
\* the repository name has none.)
Replace(s, p, r) ==
  LET i == Search(s, p)
  IN  IF i = -1 THEN s
      ELSE SubSeq(s, 1, i) \o r \o SubSeq(s, i + Len(p) + 1, Len(s))

RECURSIVE Join(_)
Join(lines) == IF lines = << >> THEN "" ELSE Head(lines) \o "\n" \o Join(Tail(lines))

\* files.find(f => f.path.match(re)): the first file whose path ends with
\* one of the names, Null when there is none.
FindEnding(files, names) ==
  LET at == { k \in DOMAIN files : \E n \in names : EndsWith(files[k].path, n) }
  IN  IF at = {} THEN Null ELSE files[CHOOSE k \in at : \A j \in at : k <= j]

\* Variant of OutputDir: an Angular build is taken from dist.
OutputDirFlat(projectType, repo) ==
  IF projectType = "Create React App" THEN "build"
  ELSE IF projectType = "Next.js" THEN "out"
  ELSE "dist"

\* buildCommand and outputDir of the workflow, by project type.
OutputDir(projectType, repo) ==
  IF projectType = "Create React App" THEN "build"
  ELSE IF projectType = "Next.js" THEN "out"
  ELSE IF projectType = "Angular" THEN "dist/" \o repo
  ELSE "dist"

workflowContent(buildCommand, outputDir) ==
  Join(<< "name: Deploy to GitHub Pages",
          "",
          "on:",
          "  push:",
          "    branches: [\"main\"]",
          "  workflow_dispatch:",
          "",
          "permissions:",
          "  contents: read",
          "  pages: write",
          "  id-token: write",
          "",
          "concurrency:",
          "  group: \"pages\"",
          "  cancel-in-progress: false",
          "",
          "jobs:",
          "  build:",
          "    runs-on: ubuntu-latest",
          "    steps:",
          "      - name: Checkout",
          "        uses: actions/checkout@v4",
          "      - name: Setup Node",
          "        uses: actions/setup-node@v4",
          "        with:",
          "          node-version: \"20\"",
          "          cache: 'npm'",
          "      - name: Install dependencies",
          "        run: npm ci",
          "      - name: Build",
          "        run: " \o buildCommand,
          "      - name: Upload artifact",
          "        uses: actions/upload-pages-artifact@v3",
          "        with:",
          "          path: ./" \o outputDir,
          "",
          "  deploy:",
          "    environment:",
          "      name: github-pages",
          "      url: ${{ steps.deployment.outputs.page_url }}",
          "    runs-on: ubuntu-latest",
          "    needs: build",
          "    steps:",
          "      - name: Deploy to GitHub Pages",
          "        id: deployment",
          "        uses: actions/deploy-pages@v4" >>)

\* Variant of NeedsWorkflow: every project but a static website is built.
NeedsWorkflowUnlessStatic(projectType) == projectType # "Static Website"

\* "1. GitHub Actions Workflow (Standard for all non-static)".
NeedsWorkflow(projectType) == projectType # "Static Website" /\ projectType # "Unknown"

WorkflowFix(projectType, repo) ==
  IF NeedsWorkflow(projectType)
  THEN << [path |-> ".github/workflows/deploy.yml",
           content |-> workflowContent("npm run build", OutputDir(projectType, repo)),
           description |-> "Create GitHub Actions workflow for " \o projectType] >>
  ELSE << >>

\* Variant of ViteFix: the existing config is patched whether or not it has
\* a base option.
ViteFixAlways(projectType, files, repo) ==
  IF projectType # "Vite" THEN << >>
  ELSE LET viteConfig == FindEnding(files, {"vite.config.js", "vite.config.ts"})
       IN  IF viteConfig = Null THEN << >>
           ELSE << [path |-> viteConfig.path,
                    content |-> Replace(viteConfig.content, "defineConfig({",
                                        "defineConfig({\n  base: \"/" \o repo \o "/\","),
                    description |-> "Update vite.config"] >>

\* "2. Vite Config Fix".
ViteFix(projectType, files, repo) ==
  IF projectType # "Vite" THEN << >>
  ELSE LET viteConfig == FindEnding(files, {"vite.config.js", "vite.config.ts"})
       IN  IF viteConfig = Null
           THEN << [path |-> "vite.config.js",
                    content |-> "import { defineConfig } from 'vite'\n"
                                  \o "import react from '@vitejs/plugin-react'\n\n"
                                  \o "// https://vitejs.dev/config/\n"
                                  \o "export default defineConfig({\n"
                                  \o "  plugins: [react()],\n"
                                  \o "  base: \"/" \o repo \o "/\",\n})",
                    description |-> "Create vite.config.js with correct base path"] >>
           ELSE IF ~Includes(viteConfig.content, "base:")
                   /\ Includes(viteConfig.content, "defineConfig({")
           THEN << [path |-> viteConfig.path,
                    content |-> Replace(viteConfig.content, "defineConfig({",
                                        "defineConfig({\n  base: \"/" \o repo \o "/\","),
                    description |-> "Update vite.config to set base path to \"/"
                                      \o repo \o "/\""] >>
           ELSE << >>

\* "3. Next.js Config Fix".
NextFix(projectType, files) ==
  IF projectType # "Next.js" THEN << >>
  ELSE LET nextConfig == FindEnding(files, {"next.config.js", "next.config.mjs",
                                            "next.config.ts"})
       IN  IF nextConfig # Null
              /\ ~Includes(nextConfig.content, "output: 'export'")
              /\ ~Includes(nextConfig.content, "output: \"export\"")
              /\ Includes(nextConfig.content, "nextConfig = {")
           THEN << [path |-> nextConfig.path,
                    content |-> Replace(nextConfig.content, "nextConfig = {",
                                        "nextConfig = {\n  output: 'export',"),
                    description |-> "Update next.config to enable static export"] >>
           ELSE << >>

IsSpa(projectType) == projectType \in {"Vite", "Create React App", "Vue", "Angular"}

UploadStep == "      - name: Upload artifact"

FallbackStep(outputDir) ==
  "      - name: Create 404 fallback\n        run: cp " \o outputDir \o "/index.html "
    \o outputDir \o "/404.html || true\n"

\* Variant of AddFallback: the step is added at the end of the workflow.
AddFallbackAtEnd(content, outputDir) == content \o FallbackStep(outputDir)

\* "Insert before Upload artifact".
AddFallback(content, outputDir) ==
  Replace(content, UploadStep, FallbackStep(outputDir) \o UploadStep)

\* "Update workflow to handle 404 for SPA": the output directory is computed
\* again, with dist for every type but Create React App and Angular.
SpaFallback(ps, projectType, repo) ==
  LET outputDir == IF projectType = "Angular" THEN "dist/" \o repo
                   ELSE IF projectType = "Create React App" THEN "build"
                   ELSE "dist"
      at == { k \in DOMAIN ps : ps[k].path = ".github/workflows/deploy.yml" }
  IN  IF at # {} /\ IsSpa(projectType)
      THEN LET k == CHOOSE i \in at : \A j \in at : i <= j
           IN  [ps EXCEPT ![k].content = AddFallback(@, outputDir)]
      ELSE ps

\* Steps 4 and 5 read package.json and push no patch.
generateAutoFixes(a, repo) ==
  SpaFallback(WorkflowFix(a.projectType, repo)
                \o ViteFix(a.projectType, a.files, repo)
                \o NextFix(a.projectType, a.files),
              a.projectType, repo)

----------------------------------------------------------------------------
(* The wizard's handleDeploy starts one deployment on the chosen provider  *)
(* with the analysis, the patches and the custom domain of its state.      *)

Domains == { << >>, <<100>> }

Tokens == {"", "tok"}

PatchLists == { << >>, <<WorkflowPatch, IndexPatch>> }

\* The state in which a deploy call starts.
Idle ==
  /\ pc = "start"
  /\ fixes = 0
  /\ stale = FALSE
  /\ given = Null
  /\ nameInput = repoName
  /\ pending = {}
  /\ events = << >>
  /\ calls = [op \in Ops |-> 0]
  /\ failures = 0
  /\ failedOps = {}
  /\ result = ""
  /\ owner = ""
  /\ defaultBranch = "main"
  /\ filesToUpload = << >>
  /\ latestCommitSha = ""
  /\ baseTreeSha = ""
  /\ treeItems = EmptyBag
  /\ batchStart = 1
  /\ upState = << >>
  /\ retries = << >>
  /\ pagesUrl = ""
  /\ createStatus = 0
  /\ readBack = "none"
  /\ filesByPath = << >>
  /\ requiredHashes = << >>

\* The number of files, patches and domain marker a deployment is handed.
InputSize == Len(analysis.files) + Len(patches) + Len(customDomain)

Init ==
  /\ provider \in {"github", "firebase"}
  /\ \E n \in 0..MaxFiles : analysis = [files |-> ManifestOf(n)]
  /\ patches \in PatchLists
  /\ customDomain \in Domains
  /\ token \in Tokens \ {""}
  /\ archive = << >>
  /\ InputSize <= MaxFiles
  /\ Idle

Next == GhNext \/ FbNext

Spec == Init /\ [][Next]_vars

(* A deployment whose provider calls and timers all return: a step that   *)
(* can be taken is taken in the end.                                       *)

LiveSpec == Init /\ [][Next]_vars /\ WF_vars(Next)

(* The blob phase of deployZipToGitHub on manifests of many files: the     *)
(* deployment of a new repository's first files, from the moment the      *)
(* commit read has answered and the first batch is issued.                 *)

BulkManifest(n) ==
  [k \in 1..n |-> [path |-> "img/" \o ToString(k) \o ".png", content |-> <<k % 256>>]]

UploadCounts == {1, BATCH_SIZE, BATCH_SIZE + 1, MaxUploads}

UploadInit ==
  \E n \in UploadCounts :
    /\ provider = "github"
    /\ analysis = [files |-> BulkManifest(n)]
    /\ patches = << >>
    /\ customDomain = << >>
    /\ token \in Tokens \ {""}
    /\ archive = << >>
    /\ fixes = 0
    /\ stale = FALSE
    /\ given = Null
    /\ nameInput = repoName
    /\ pending = {}
    /\ pc = "blobs"
    /\ events = << Status("Authenticating...", "info"),
                   Status("Authenticated", "success"),
                   Status("Setting up repository...", "info"),
                   Status("Repository created successfully.", "success"),
                   Status("Preparing files from analysis...", "info") >>
                 \o PrepareEvents(<< >>, << >>)
                 \o << Status("Uploading files...", "info") >>
    /\ calls = [op \in Ops |->
                  IF op \in {"getAuthenticated", "createForAuthenticatedUser",
                             "getRef", "getCommit"}
                  THEN 1
                  ELSE IF op = "createBlob" THEN Cardinality(BatchItems(1, n))
                  ELSE 0]
    /\ failures = 0
    /\ failedOps = {}
    /\ result = ""
    /\ owner = Login
    /\ defaultBranch = "main"
    /\ filesToUpload = PrepareFiles(BulkManifest(n), << >>, << >>)
    /\ latestCommitSha = "commit0"
    /\ baseTreeSha = "tree0"
    /\ treeItems = EmptyBag
    /\ batchStart = 1
    /\ upState = [f \in 1..n |-> IF f \in BatchItems(1, n) THEN "call" ELSE "pending"]
    /\ retries = [f \in 1..n |-> IF f \in BatchItems(1, n) THEN RETRIES ELSE 0]
    /\ pagesUrl = ""
    /\ createStatus = 201
    /\ readBack = "none"
    /\ filesByPath = << >>
    /\ requiredHashes = << >>

UploadNext ==
  \E f \in 1..Len(filesToUpload) : GhBlobCreated(f) \/ GhBlobRetry(f)

UploadSpec == UploadInit /\ [][UploadNext]_vars

(* The deploy functions called directly, with any credential string.       *)

ApiInit ==
  /\ provider \in {"github", "firebase"}
  /\ \E n \in 0..MaxFiles : analysis = [files |-> ManifestOf(n)]
  /\ patches \in PatchLists
  /\ customDomain \in Domains
  /\ token \in Tokens
  /\ archive = << >>
  /\ InputSize <= MaxFiles
  /\ Idle

ApiSpec == ApiInit /\ [][Next]_vars

(* deployZipToGitHub called with any patch list, up to the prepared list.  *)

PrepareInit ==
  /\ provider = "github"
  /\ \E n \in 0..MaxFiles : analysis = [files |-> ManifestOf(n)]
  /\ patches \in SeqsUpTo(PatchPool, MaxPatches)
  /\ customDomain \in Domains
  /\ token \in Tokens \ {""}
  /\ archive = << >>
  /\ Idle

PrepareNext ==
  \/ GhStart
  \/ GhAuthenticated
  \/ GhRepoCreated
  \/ GhRepoFetched
  \/ GhPrepared

PrepareSpec == PrepareInit /\ [][PrepareNext]_vars

----------------------------------------------------------------------------
(* The wizard's onDrop and handleFixPaths, and the zips they are given.    *)

Ref(attr, url) == [attr |-> attr, url |-> url]

\* A file entry holding a text: its size is the length of the text.
Text(path, content) ==
  [path |-> path, dir |-> FALSE, size |-> ContentLength(content), content |-> content]

\* A file entry of some other kind, of size bytes.
Blob(path, size) == [path |-> path, dir |-> FALSE, size |-> size, content |-> << >>]

Dir(path) == [path |-> path, dir |-> TRUE, size |-> 0, content |-> << >>]

\* A configuration file: its content is its text.
Source(path, text) == [path |-> path, dir |-> FALSE, size |-> Len(text), content |-> text]

EntryPool ==
  << Dir("site/"),
     Text("site/index.html", <<Ref("src", "/app.js"), Ref("href", "/css/style.css")>>),
     Text("site/app.js", << >>),
     Text("site/css/style.css", <<Ref("src", "/img/a.png")>>),
     Blob("site/.DS_Store", 6),
     Text("site/node_modules/x.js", <<Ref("src", "/y.js")>>),
     Blob("__MACOSX/site/._index.html", 4),
     Blob("foo/x", 1),
     Blob("foobar/x", 2),
     Text("index.html", <<Ref("src", "./app.js?v=1"), Ref("href", "missing.css"),
                          Ref("href", "missing.css#top"), Ref("src", "/abs.js"),
                          Ref("href", "https://cdn/x.css"),
                          Ref("href", "mailto:a@b.c")>>),
     Text("app.js", <<Ref("src", "/lib.js")>>),
     Blob("package.json", 20),
     Blob("vite.config.ts", 5),
     Blob("angular.json", 5),
     Blob("next.config.mjs", 5),
     Blob("vue.config.js", 5),
     Blob("src/react-scripts.js", 5),
     Blob("/abs.js", 3),
     Blob("../up.js", 3),
     Blob("debug.log", 7),
     Blob(".env", 7),
     [path |-> "big.html", dir |-> FALSE, size |-> KB * KB + 1,
      content |-> <<Ref("src", "/huge.js")>>],
     Blob("docs/index.html", 9),
     Source("vite.config.ts", "export default defineConfig({})"),
     Source("web/vite.config.ts", "export default defineConfig({ base: '/x/' })"),
     Source("vite.config.ts.bak", "export default {}"),
     Source("next.config.mjs", "const nextConfig = {}"),
     Source("next.config.ts", "const nextConfig = { output: 'export' }"),
     Source("package.json", "{ \"scripts\": { \"build\": \"vite build\" } }"),
     Blob("public/favicon.ico", 8) >>

\* The entries that analyzeZip is followed with on every zip.
AnalyzePool == 1..23

\* The entries of the projects that generateAutoFixes is followed with.
FixPool == {10, 14, 16, 17} \cup (24..30)

\* The entries of the pool a deployment of the wizard is followed with.
DeployPool == {2, 3, 6}

RECURSIVE SetsUpTo(_, _)
SetsUpTo(S, n) ==
  IF n = 0 THEN { {} }
  ELSE LET smaller == SetsUpTo(S, n - 1)
       IN  smaller \cup { T \cup {x} : T \in smaller, x \in S }

RECURSIVE InOrder(_)
InOrder(S) ==
  IF S = {} THEN << >>
  ELSE LET least == CHOOSE x \in S : \A y \in S : x <= y
       IN  <<EntryPool[least]>> \o InOrder(S \ {least})

\* The zips over a part of the pool: up to MaxEntries entries, in the order
\* of the pool.
Archives(S) == { InOrder(T) : T \in SetsUpTo(S, MaxEntries) }

runVars == <<pc, events, calls, failures, result, batchStart, upState, failedOps>>

\* analyzeZip called on the zip.
Analyze ==
  /\ analysis = Null
  /\ analysis' = analyzeZip(archive)
  /\ stale' = TRUE
  /\ UNCHANGED <<provider, patches, customDomain, token, archive, fixes, given,
                 nameInput, pending,
                 runVars, ghVars, fbVars>>

\* onDrop: the analysis is kept unless the project is Unknown and has neither
\* an index.html nor a package.json at the root or one folder below it.
IsRootOrBelow(path, name) ==
  \/ path = name
  \/ /\ EndsWith(path, "/" \o name)
     /\ Len(path) > Len(name) + 1
     /\ ~Includes(SubSeq(path, 1, Len(path) - Len(name) - 1), "/")

OnDrop ==
  /\ analysis = Null
  /\ pc = "start"
  /\ LET r == analyzeZip(archive)
         hasIndex == \E k \in DOMAIN r.files : IsRootOrBelow(r.files[k].path, "index.html")
         hasPackage == \E k \in DOMAIN r.files : IsRootOrBelow(r.files[k].path, "package.json")
     IN  IF r.projectType = "Unknown" /\ ~hasIndex /\ ~hasPackage
         THEN UNCHANGED <<analysis, stale>>
         ELSE analysis' = r /\ stale' = TRUE
  /\ UNCHANGED <<provider, patches, customDomain, token, archive, fixes, given,
                 nameInput, pending,
                 runVars, ghVars, fbVars>>

\* handleFixPaths, before a deployment is started.
HandleFixPaths ==
  /\ analysis # Null
  /\ pc = "start"
  /\ fixes < MaxFixes
  /\ analysis' = fixAbsolutePaths(analysis)
  /\ given' = GivenAfter(analysis)
  /\ fixes' = fixes + 1
  /\ stale' = TRUE
  /\ UNCHANGED <<provider, patches, customDomain, token, archive, nameInput, pending,
                 runVars, ghVars, fbVars>>

(* analyzeZip and fixAbsolutePaths on every zip over the pool.             *)

AnalyzeInit ==
  /\ provider = "github"
  /\ analysis = Null
  /\ patches = << >>
  /\ customDomain = << >>
  /\ token \in Tokens \ {""}
  /\ archive \in Archives(AnalyzePool)
  /\ Idle

AnalyzeNext == Analyze \/ HandleFixPaths

AnalyzeSpec == AnalyzeInit /\ [][AnalyzeNext]_vars

(* The wizard's effect on [analysis, repoName]: the patches are            *)
(* generated again from every analysis it is given.                        *)

\* generateAutoFixes awaits a file read when it finds the config (or the
\* package.json) its project type makes it look for; otherwise no await is
\* reached and its promise is resolved when the effect returns.
AwaitsRead(a) ==
  LET has(names) == FindEnding(a.files, names) # Null
      root(name) == \E k \in DOMAIN a.files : a.files[k].path = name
  IN  \/ a.projectType = "Vite" /\ has({"vite.config.js", "vite.config.ts"})
      \/ a.projectType = "Next.js" /\ has({"next.config.js", "next.config.mjs",
                                           "next.config.ts"})
      \/ a.projectType = "Create React App" /\ root("package.json")
      \/ /\ IsSpa(a.projectType)
         /\ \E k \in DOMAIN a.files : StartsWith(a.files[k].path, "public/")
         /\ ~root("public/404.html")
         /\ root("package.json")

\* generateAutoFixes(analysis, repoName) is called and awaits: nothing is
\* cancelled, the calls started before go on.
StartGeneration(gens, a, name) == gens \cup {[analysis |-> a, name |-> name]}

\* The effect on [analysis, repoName] runs.
PatchesEffect ==
  /\ stale
  /\ stale' = FALSE
  /\ IF analysis # Null /\ nameInput # ""
     THEN IF AwaitsRead(analysis)
          THEN /\ pending' = StartGeneration(pending, analysis, nameInput)
               /\ UNCHANGED patches
          ELSE /\ patches' = generateAutoFixes(analysis, nameInput)
               /\ UNCHANGED pending
     ELSE /\ patches' = << >>
          /\ UNCHANGED pending
  /\ UNCHANGED <<provider, analysis, customDomain, token, archive, fixes, given,
                 nameInput, runVars, ghVars, fbVars>>

\* .then(setPatches): a generation's read is over and its result is stored.
SetPatches(g) ==
  /\ g \in pending
  /\ pending' = pending \ {g}
  /\ patches' = generateAutoFixes(g.analysis, g.name)
  /\ UNCHANGED <<provider, analysis, customDomain, token, archive, fixes, stale, given,
                 nameInput, runVars, ghVars, fbVars>>

\* onChange of the name field: setRepoName(e.target.value).
RepoNames == {"", "app", "site"}

SetRepoName(name) ==
  /\ pc = "start"
  /\ name # nameInput
  /\ nameInput' = name
  /\ stale' = TRUE
  /\ UNCHANGED <<provider, analysis, patches, customDomain, token, archive, fixes, given,
                 pending, runVars, ghVars, fbVars>>

FixesInit ==
  /\ provider = "github"
  /\ analysis = Null
  /\ patches = << >>
  /\ customDomain = << >>
  /\ token \in Tokens \ {""}
  /\ archive \in Archives(FixPool)
  /\ Idle

FixesNext == Analyze \/ HandleFixPaths \/ PatchesEffect \/ \E g \in pending : SetPatches(g)

FixesSpec == FixesInit /\ [][FixesNext]_vars

(* The same with the name field edited while patches are generated.       *)

NamePool == {14, 16, 17, 24, 29}

NameInit ==
  /\ provider = "github"
  /\ analysis = Null
  /\ patches = << >>
  /\ customDomain = << >>
  /\ token \in Tokens \ {""}
  /\ archive \in Archives(NamePool)
  /\ Idle

NameNext ==
  \/ Analyze
  \/ HandleFixPaths
  \/ \E name \in RepoNames : SetRepoName(name)
  \/ PatchesEffect
  \/ \E g \in pending : SetPatches(g)

NameSpec == NameInit /\ [][NameNext]_vars

(* The wizard from the drop of a zip to the end of a deployment.           *)

WizardInit ==
  /\ provider \in {"github", "firebase"}
  /\ analysis = Null
  /\ patches \in PatchLists
  /\ customDomain = << >>
  /\ token \in Tokens \ {""}
  /\ archive \in Archives(DeployPool)
  /\ Idle

WizardNext == OnDrop \/ HandleFixPaths \/ GhNext \/ FbNext

WizardSpec == WizardInit /\ [][WizardNext]_vars

----------------------------------------------------------------------------
(* Vocabulary of the properties.                                           *)

ErrorEvents == { k \in 1..Len(events) : events[k].type = "error" }

HasStep(step) == \E k \in 1..Len(events) : events[k].step = step

LastEventIs(type) == Len(events) > 0 /\ events[Len(events)].type = type

Items == DOMAIN upState
Started == { f \in Items : upState[f] # "pending" }
Running == { f \in Items : upState[f] \in {"call", "sleep"} }
Sleeping == { f \in Items : upState[f] = "sleep" }
Finished == { f \in Items : upState[f] = "done" }
GivenUp == { f \in Items : upState[f] = "failed" }

RECURSIVE SumUpTo(_, _)
SumUpTo(g, n) == IF n = 0 THEN 0 ELSE g[n] + SumUpTo(g, n - 1)

\* The step of the deployment an operation belongs to (the numbered steps of
\* deployZipToGitHub; for deployZipToFirebase: version, hashes, populate,
\* uploads, finalize, release).  Reading the entries is step 3, resp. 2.
PhaseOf(op) ==
  CASE op = "getAuthenticated" -> 1
    [] op \in {"createForAuthenticatedUser", "repos.get"} -> 2
    [] op = "entry.async" -> IF provider = "github" THEN 3 ELSE 2
    [] op \in {"getRef", "getCommit"} -> 4
    [] op = "createBlob" -> 5
    [] op = "createTree" -> 6
    [] op = "createCommit" -> 7
    [] op = "updateRef" -> 8
    [] op \in {"createPagesSite", "getPages"} -> 9
    [] op = "versions.create" -> 1
    [] op = "populateFiles" -> 3
    [] op = "upload" -> 4
    [] op = "finalize" -> 5
    [] op = "releases.create" -> 6

GhOps == {"getAuthenticated", "createForAuthenticatedUser", "repos.get", "getRef",
          "getCommit", "createBlob", "createTree", "createCommit", "updateRef",
          "createPagesSite", "getPages"}

\* The requests that are in flight.
InFlight ==
  (CASE pc = "createRepo" -> {"createForAuthenticatedUser"}
     [] pc = "getRepo" -> {"repos.get"}
     [] pc \in Ops -> {pc}
     [] OTHER -> {})
  \cup (IF \E f \in Items : upState[f] = "call"
        THEN {IF provider = "github" THEN "createBlob" ELSE "upload"}
        ELSE {})

----------------------------------------------------------------------------
(* C1: on both backends an error status, once passed to onStatus, is the   *)
(* last status of the deployment: no status of any type follows it.        *)
C1_ErrorIsTerminal ==
  \A k \in 1..Len(events) : events[k].type = "error" => k = Len(events)

\* The Git deployment has raised while uploads of the rejected batch still run.
C1_Witness ==
  /\ provider = "github"
  /\ pc = "failed"
  /\ LastEventIs("error")
  /\ \E f \in Items : upState[f] = "call" /\ retries[f] < 3

(* C2: a deploy call that raises has passed exactly one error status to    *)
(* onStatus, and had passed it when it raised; one that has not raised (in *)
(* particular one that returned its URL) has passed none.                  *)
C2_OneErrorIffRaised ==
  /\ pc = "failed" => Cardinality(ErrorEvents) = 1
  /\ pc # "failed" => ErrorEvents = {}
  /\ pc = "done" <=> result # ""

C2_Witness ==
  /\ provider = "firebase"
  /\ pc = "failed"
  /\ "finalize" \in failedOps
  /\ Cardinality(ErrorEvents) = 1

(* C3: a blob upload is attempted at most 3 times.  Every createBlob       *)
(* request is a first attempt or follows a failure and its wait; an upload *)
(* that runs has failed 3 - retries times, one that is over and succeeded  *)
(* had failed at most twice, and one is given up only at its third         *)
(* failure.  While no upload is given up the blob step raises no error and *)
(* goes on when its batch is complete; once one is given up the deployment *)
(* has raised with the error status last and no tree, commit or ref update *)
(* request is ever issued.                                                 *)
C3_BlobRetry ==
  provider = "github" =>
    LET failedSoFar == [f \in Items |-> IF f \in Running THEN 3 - retries[f]
                                         ELSE IF f \in GivenUp THEN 3 ELSE 0]
        least == SumUpTo(failedSoFar, Len(upState))
    IN  /\ \A f \in Running : retries[f] \in 1..3
        /\ least <= failures
        /\ failures <= least + 2 * Cardinality(Finished)
        /\ calls["createBlob"] =
             Cardinality(Started) + failures - Cardinality(GivenUp) - Cardinality(Sleeping)
        /\ calls["createBlob"] <= 3 * Cardinality(Started)
        /\ GivenUp # {} =>
             /\ pc = "failed"
             /\ LastEventIs("error")
             /\ calls["createTree"] = 0
             /\ calls["createCommit"] = 0
             /\ calls["updateRef"] = 0
        /\ (GivenUp = {} /\ calls["createBlob"] > 0 /\ calls["createTree"] = 0) =>
             /\ pc = "blobs"
             /\ ErrorEvents = {}
             /\ \E g \in batchStart..Min(batchStart + 4, Len(upState)) : upState[g] # "done"

\* One prepared file whose upload failed twice and then succeeded; the
\* deployment went on to its end.
C3_Witness ==
  /\ provider = "github"
  /\ Len(filesToUpload) = 1
  /\ failures = 2
  /\ upState[1] = "done"
  /\ pc = "done"
  /\ ErrorEvents = {}

(* C4: in the blob step of the Git backend at most 5 uploads are in        *)
(* progress, and an upload of a later batch has started only when every    *)
(* upload of the earlier batches has succeeded.                            *)
C4_BatchesSequential ==
  provider = "github" =>
    /\ Cardinality(Running) <= 5
    /\ \A f \in Items : \A g \in Items :
         ((f - 1) \div 5 < (g - 1) \div 5 /\ upState[g] # "pending")
           => upState[f] = "done"

\* An upload of the second batch is in flight.
C4_Witness ==
  /\ provider = "github"
  /\ Len(filesToUpload) >= 6
  /\ upState[6] = "call"

(* C5: a Git deployment issues its requests in the order of its steps     *)
(* (authenticate, repository create or read, file preparation, ref read,   *)
(* blob uploads, tree, commit, ref update, Pages): while a request is in   *)
(* flight no request of a later step has been issued, a request is issued  *)
(* only when every earlier step is complete, and a deployment that         *)
(* returned has gone through every step.                                   *)
GhStepDone(q) ==
  CASE q = 1 -> calls["getAuthenticated"] = 1 /\ pc # "getAuthenticated"
    [] q = 2 -> /\ calls["createForAuthenticatedUser"] = 1
                /\ pc \notin {"createRepo", "getRepo"}
                /\ \/ createStatus = 201 /\ calls["repos.get"] = 0
                   \/ createStatus # 201 /\ calls["repos.get"] = 1
    [] q = 3 -> HasStep("Preparing files from analysis...") /\ pc # "prepare"
                /\ HasStep("Prepared files for upload.")
    [] q = 4 -> calls["getRef"] = 1 /\ pc \notin {"getRef", "getCommit"}
    [] q = 5 -> /\ \A f \in 1..Len(filesToUpload) : upState[f] = "done"
                /\ calls["createBlob"] >= Len(filesToUpload)
                /\ BagCardinality(treeItems) = Len(filesToUpload)
    [] q = 6 -> calls["createTree"] = 1 /\ pc # "createTree"
    [] q = 7 -> calls["createCommit"] = 1 /\ pc # "createCommit"
    [] q = 8 -> calls["updateRef"] = 1 /\ pc # "updateRef"
    [] q = 9 -> calls["createPagesSite"] = 1
                /\ pc \notin {"waitPages", "createPagesSite", "getPages"}

C5_PhaseOrder ==
  provider = "github" =>
    /\ \A a \in InFlight : \A b \in GhOps :
         calls[b] > 0 => PhaseOf(b) <= PhaseOf(a)
    /\ \A b \in GhOps :
         calls[b] > 0 => \A q \in 1..(PhaseOf(b) - 1) : GhStepDone(q)
    /\ pc = "done" => \A q \in 1..9 : GhStepDone(q)

\* A deployment of two batches has returned.
C5_Witness ==
  /\ provider = "github"
  /\ pc = "done"
  /\ Len(filesToUpload) > 5
  /\ calls["createBlob"] > Len(filesToUpload)

(* C6 as claimed: a repository create rejected with 409 or with 422 does   *)
(* not fail the deployment, which reads the existing repository instead.   *)
C6_AnyConflictFallsBack ==
  createStatus \in {409, 422} =>
    /\ calls["repos.get"] = 1
    /\ "createForAuthenticatedUser" \notin failedOps

(* C6, amended: a repository create rejected with 422 does not fail the    *)
(* deployment: no error status is passed for it and the existing           *)
(* repository is read; when that read succeeds its default branch is taken *)
(* and the files are prepared, when it fails the deployment raises.  Any   *)
(* other rejection (409 included) raises at once, without a read.          *)
C6_ConflictFallsBack ==
  /\ createStatus = 422 =>
       /\ calls["repos.get"] = 1
       /\ "createForAuthenticatedUser" \notin failedOps
       /\ HasStep("Repository already exists. Fetching details...")
       /\ \/ pc = "getRepo" /\ ErrorEvents = {}
          \/ pc = "failed" /\ "repos.get" \in failedOps
          \/ /\ "repos.get" \notin failedOps
             /\ defaultBranch = "master"
             /\ HasStep("Preparing files from analysis...")
  /\ createStatus \in {409, 500} =>
       /\ pc = "failed"
       /\ calls["repos.get"] = 0
       /\ "createForAuthenticatedUser" \in failedOps
       /\ ~HasStep("Preparing files from analysis...")

\* The create was rejected with 422 and the deployment returned, on the
\* branch of the repository that existed.
C6_Witness ==
  /\ createStatus = 422
  /\ pc = "done"
  /\ defaultBranch = "master"
  /\ ErrorEvents = {}

(* C7: in the prepared upload list of the Git backend a patch wins over    *)
(* the manifest file at its path.  The entries other than the custom       *)
(* domain's marker are one per path of the manifest and of the patches;    *)
(* the entry of a path carries the content of the last patch at that path  *)
(* when there is one and the manifest file's bytes otherwise; and the      *)
(* manifest's paths keep their places, so that a patch at the path of a    *)
(* manifest file replaces it in place.                                     *)
ManifestPaths == { analysis.files[k].path : k \in 1..Len(analysis.files) }
PatchPaths == { patches[k].path : k \in 1..Len(patches) }

LastPatchAt(p) ==
  patches[CHOOSE k \in 1..Len(patches) :
            patches[k].path = p /\ \A j \in (k + 1)..Len(patches) : patches[j].path # p]

ManifestBytes(p) ==
  analysis.files[CHOOSE k \in 1..Len(analysis.files) : analysis.files[k].path = p].content

\* The prepared list without the marker appended for the custom domain.
Overlaid ==
  IF customDomain # << >>
  THEN SubSeq(filesToUpload, 1, Len(filesToUpload) - 1)
  ELSE filesToUpload

C8_PatchesRegistered ==
  (provider = "firebase" /\ calls["populateFiles"] > 0 /\ patches # << >>) =>
    \A p \in PatchPaths :
      /\ p \in DOMAIN filesByPath
      /\ filesByPath[p] = Sha256(TextEncode(LastPatchAt(p).content))

Swallowed == {"getRef", "getCommit", "createPagesSite", "getPages"}

C10_PagesConflictIsSuccess ==
  provider = "github" =>
    /\ HasStep("GitHub Pages already enabled.") =>
         /\ calls["getPages"] = 1
         /\ ErrorEvents = {}
         /\ pc \in {"getPages", "done"}
         /\ pc = "getPages" <=> readBack = "none"
    /\ readBack # "none" =>
         /\ HasStep("GitHub Pages already enabled.")
         /\ pc = "done"
         /\ result = IF readBack \notin {"failed", ""}
                     THEN readBack
                     ELSE "https://" \o owner \o ".github.io/" \o repoName \o "/"
         /\ LastEventIs("success")
         /\ events[Len(events)].details = result

\* The read-back failed and the deployment returned the default URL.
C10_Witness ==
  /\ provider = "github"
  /\ readBack = "failed"
  /\ pc = "done"
  /\ result = "https://alice.github.io/site/"

(* C11: deployZipToFirebase issues its requests in the order version       *)
(* create, hashing, populateFiles, uploads, finalize, release, each at     *)
(* most once (one upload per required hash).  populateFiles is sent only   *)
(* after the version create succeeded and carries the hashes of the files; *)
(* uploads start only after populateFiles succeeded; finalize is sent only *)
(* after populateFiles succeeded and every required upload succeeded; the  *)
(* release is sent only after the finalize request returned success.       *)
FbOps == {"versions.create", "populateFiles", "upload", "finalize", "releases.create"}

Succeeded(op) == calls[op] = 1 /\ pc # op /\ op \notin failedOps

C11_FirebaseOrder ==
  provider = "firebase" =>
    /\ \A op \in FbOps \ {"upload"} : calls[op] <= 1
    /\ calls["populateFiles"] > 0 =>
         /\ Succeeded("versions.create")
         /\ "entry.async" \notin failedOps
         /\ filesByPath = HashFiles(analysis.files)
    /\ calls["upload"] > 0 => Succeeded("populateFiles")
    /\ calls["finalize"] > 0 =>
         /\ Succeeded("populateFiles")
         /\ "upload" \notin failedOps
         /\ calls["upload"] = Len(requiredHashes)
         /\ \A k \in 1..Len(requiredHashes) : upState[k] = "done"
    /\ calls["releases.create"] > 0 => Succeeded("finalize")
    /\ pc = "done" => Succeeded("releases.create")

\* Released after two batches of required uploads.
C11_Witness ==
  /\ provider = "firebase"
  /\ pc = "done"
  /\ Len(requiredHashes) > BATCH_SIZE
  /\ calls["releases.create"] = 1

(* C12: deployZipToFirebase uploads exactly the required hashes of the     *)
(* populateFiles response: one upload request per required hash whose     *)
(* upload has started, every required hash uploaded before finalize, at    *)
(* most 5 upload requests in flight.  When the required list is empty no   *)
(* upload is requested, one info status "All files already exist on        *)
(* Firebase." is passed, no error status is passed for it, and finalize is *)
(* requested.                                                              *)
AlreadyExistEvents ==
  { k \in 1..Len(events) : events[k].step = "All files already exist on Firebase." }

C12_OnlyRequiredUploaded ==
  provider = "firebase" =>
    /\ Items \subseteq 1..Len(requiredHashes)
    /\ calls["upload"] = Cardinality(Started)
    /\ Cardinality({ k \in Items : upState[k] = "call" }) <= BATCH_SIZE
    /\ calls["finalize"] > 0 => Started = 1..Len(requiredHashes)
    /\ (Succeeded("populateFiles") /\ requiredHashes = << >>) =>
         /\ calls["upload"] = 0
         /\ Cardinality(AlreadyExistEvents) = 1
         /\ \A k \in AlreadyExistEvents : events[k].type = "info"
         /\ calls["finalize"] = 1
         /\ ErrorEvents # {} => failedOps \cap {"finalize", "releases.create"} # {}
    /\ requiredHashes # << >> => AlreadyExistEvents = {}

\* Nothing was required: released without an upload.
C12_Witness ==
  /\ provider = "firebase"
  /\ pc = "done"
  /\ Len(analysis.files) > 0
  /\ requiredHashes = << >>
  /\ calls["upload"] = 0

(* C13: in deployZipToFirebase an upload that fails is tried again, up to  *)
(* 3 attempts: a deployment fails on an upload only after some required    *)
(* hash was requested 3 times.                                             *)
C13_UploadRetried ==
  (provider = "firebase" /\ "upload" \in failedOps) =>
    calls["upload"] >= Cardinality(Started) + 2

(* C14: a deploy call handed an empty credential fails fast: it raises     *)
(* with an error status and issues no request to the provider.             *)
C14_FailFast ==
  token = "" => \A op \in Ops : calls[op] = 0

(* C15: the prefix analyzeZip strips from the entry paths is the longest   *)
(* string ending in "/" that every raw path starts with, and "" when there *)
(* is none: the folder (with the folders it is nested in) that wraps every *)
(* entry is removed whole, what is left has no folder common to all        *)
(* entries, and a part of a path segment is never removed.  Every path of  *)
(* the analysis is a raw path without that prefix.                         *)
RawPaths == { e.path : e \in Range(RawFiles(archive)) }

AnalysisPaths ==
  { f.path : f \in Range(analysis.files) } \cup { g.path : g \in Range(analysis.ignoredFiles) }

\* The strings ending in "/" that every path of P starts with.
Wrappers(P) ==
  { w \in UNION { { SubSeq(q, 1, n) : n \in 1..Len(q) } : q \in P } :
      EndsWith(w, "/") /\ \A q \in P : StartsWith(q, w) }

LongestWrapper(P) ==
  IF Wrappers(P) = {} THEN ""
  ELSE CHOOSE w \in Wrappers(P) : \A v \in Wrappers(P) : Len(v) <= Len(w)

HasDotDot(path) ==
  path = ".." \/ StartsWith(path, "../") \/ EndsWith(path, "/..") \/ Includes(path, "/../")

C16_PathsNormalized ==
  analysis # Null =>
    /\ \A k \in DOMAIN analysis.files :
         /\ analysis.files[k].path # ""
         /\ ~StartsWith(analysis.files[k].path, "/")
         /\ ~HasDotDot(analysis.files[k].path)
    /\ \A j, k \in DOMAIN analysis.files :
         analysis.files[j].path = analysis.files[k].path => j = k

(* C17: in every analysis, totalSize is the sum of the sizes of the        *)
(* manifest files and fileCount is their number.                           *)
RECURSIVE SumOfSizes(_)
SumOfSizes(files) ==
  IF files = << >> THEN 0 ELSE Head(files).size + SumOfSizes(Tail(files))

C17_TotalSize ==
  analysis # Null =>
    /\ analysis.totalSize = SumOfSizes(analysis.files)
    /\ analysis.fileCount = Len(analysis.files)

(* C18: every raw file of the zip whose stripped path analyzeZip ignores   *)
(* is in ignoredFiles with a non-empty reason and not in the manifest;     *)
(* every other raw file is in the manifest and not in ignoredFiles, so     *)
(* each lands in exactly one of the two; and a deployment of the wizard    *)
(* sends no ignored path to createBlob, to the tree or to populateFiles:   *)
(* what it sends is a manifest file's content under its path, or a patch,  *)
(* and it uploads only hashes of manifest files.                           *)
ManifestPathSet == { f.path : f \in Range(analysis.files) }

IgnoredPathSet == { g.path : g \in Range(analysis.ignoredFiles) }

C18_JunkNeverUploaded ==
  analysis # Null =>
    /\ \A e \in Range(RawFiles(archive)) :
         LET finalPath == FinalPath(e.path, CommonPrefix(RawFiles(archive)))
         IN  IF IgnoreReason(finalPath) # ""
             THEN finalPath \in IgnoredPathSet /\ finalPath \notin ManifestPathSet
             ELSE finalPath \in ManifestPathSet /\ finalPath \notin IgnoredPathSet
    /\ Len(analysis.files) + Len(analysis.ignoredFiles) = Len(RawFiles(archive))
    /\ \A g \in Range(analysis.ignoredFiles) : g.reason # ""
    /\ \A f \in Range(filesToUpload) :
         /\ f.path \notin IgnoredPathSet
         /\ f.path \in PatchPaths \/ f.content = ManifestBytes(f.path)
    /\ \A t \in BagToSet(treeItems) :
         /\ t.path \notin IgnoredPathSet
         /\ \E f \in Range(filesToUpload) : f.path = t.path /\ t.sha = BlobSha(f.content)
    /\ DOMAIN filesByPath \cap IgnoredPathSet = {}
    /\ \A p \in DOMAIN filesByPath :
         p \in ManifestPathSet /\ filesByPath[p] = Sha256(ManifestBytes(p))
    /\ Range(requiredHashes) \subseteq Range(filesByPath)

\* A zip with a kept and an ignored file, deployed to the end.
C18_Witness ==
  /\ analysis # Null
  /\ pc = "done"
  /\ "node_modules/x.js" \in IgnoredPathSet
  /\ "index.html" \in ManifestPathSet
  /\ calls["createBlob"] + calls["populateFiles"] > 0

(* C19: the project type of an analysis is a function of its manifest      *)
(* paths: the type of the first rule that matches, in the order Vite       *)
(* config, Next.js config, angular.json, Vue CLI config, package.json with *)
(* a react-scripts path, root index.html, package.json, and Unknown when   *)
(* none does.  With a Vite config and angular.json it is Vite; with a root *)
(* index.html, a package.json and no framework signal, Static Website.     *)
RuleOrder == <<"Vite", "Next.js", "Angular", "Vue", "Create React App",
               "Static Website", "Node.js Project">>

RuleMatches(type, P) ==
  CASE type = "Vite" ->
         \E p \in P : Includes(p, "vite.config.js") \/ Includes(p, "vite.config.ts")
    [] type = "Next.js" ->
         \E p \in P : Includes(p, "next.config.js") \/ Includes(p, "next.config.mjs")
                        \/ Includes(p, "next.config.ts")
    [] type = "Angular" -> "angular.json" \in P
    [] type = "Vue" -> \E p \in P : Includes(p, "vue.config.js")
    [] type = "Create React App" ->
         "package.json" \in P /\ \E p \in P : Includes(p, "react-scripts")
    [] type = "Static Website" -> "index.html" \in P
    [] type = "Node.js Project" -> "package.json" \in P

FirstRule(P) ==
  LET matching == { k \in DOMAIN RuleOrder : RuleMatches(RuleOrder[k], P) }
  IN  IF matching = {} THEN "Unknown"
      ELSE RuleOrder[CHOOSE k \in matching : \A j \in matching : k <= j]

C19_Classification ==
  analysis # Null =>
    /\ analysis.projectType = FirstRule(ManifestPathSet)
    /\ (RuleMatches("Vite", ManifestPathSet) /\ "angular.json" \in ManifestPathSet)
         => analysis.projectType = "Vite"
    /\ ({"index.html", "package.json"} \subseteq ManifestPathSet
        /\ \A k \in 1..5 : ~RuleMatches(RuleOrder[k], ManifestPathSet))
         => analysis.projectType = "Static Website"

\* A Vite config and angular.json together.
C19_Witness ==
  /\ analysis # Null
  /\ {"vite.config.ts", "angular.json"} \subseteq ManifestPathSet
  /\ analysis.projectType = "Vite"

(* C20: the warnings of an analysis hold each text at most once.  The      *)
(* analysis analyzeZip returns holds the absolute-path warning once when   *)
(* some manifest text file under 1 MB has a root-absolute src/href,        *)
(* however many have one, and not at all otherwise; after fixAbsolutePaths *)
(* it holds none.                                                          *)
AbsoluteFiles ==
  { k \in DOMAIN analysis.files :
      /\ IsTextPath(analysis.files[k].path)
      /\ analysis.files[k].size < KB * KB
      /\ HasAbsoluteRef(analysis.files[k].content) }

CountOf(q, x) == Cardinality({ k \in DOMAIN q : q[k] = x })

C20_WarningsUnique ==
  analysis # Null =>
    /\ \A j, k \in DOMAIN analysis.warnings :
         analysis.warnings[j] = analysis.warnings[k] => j = k
    /\ fixes = 0 =>
         CountOf(analysis.warnings, AbsoluteWarning) = IF AbsoluteFiles # {} THEN 1 ELSE 0
    /\ fixes > 0 => CountOf(analysis.warnings, AbsoluteWarning) = 0

\* Two files with root-absolute references, and an asset missing twice.
C20_Witness ==
  /\ analysis # Null
  /\ fixes = 0
  /\ Cardinality(AbsoluteFiles) = 2
  /\ CountOf(analysis.warnings, AbsoluteWarning) = 1
  /\ CountOf(analysis.warnings, MissingWarning("missing.css")) = 1

(* C21: when analyzeZip captured a root index.html, its warnings hold the  *)
(* missing-asset warning of a reference r exactly when r is a src/href of  *)
(* index.html that is no absolute URL, not protocol-relative, no fragment  *)
(* and not root-absolute, and r without "./", query and fragment is no     *)
(* manifest path; a reference to an absolute URL gives no warning.         *)
IndexRefs ==
  LET captured == { k \in DOMAIN analysis.files :
                      analysis.files[k].path = "index.html"
                      /\ analysis.files[k].size < 500 * KB }
  IN  UNION { { r.url : r \in Range(analysis.files[k].content) } : k \in captured }

\* A URL with a scheme: "name:" before any "/".
IsAbsoluteUrl(url) ==
  /\ IndexOf(url, ":") > 0
  /\ ~Includes(SubSeq(url, 1, IndexOf(url, ":")), "/")

C21_MissingAsset ==
  (analysis # Null /\ fixes = 0) =>
    \A url \in IndexRefs :
      MissingWarning(AssetOf(url)) \in Range(analysis.warnings)
        <=> /\ url # ""
            /\ ~IsAbsoluteUrl(url)
            /\ ~StartsWith(url, "//")
            /\ ~StartsWith(url, "#")
            /\ ~StartsWith(url, "/")
            /\ AssetOf(url) \notin ManifestPathSet

(* C22: for a zip with a root package.json, no root index.html and no      *)
(* framework signal, analyzeZip warns that source code was likely          *)
(* uploaded: with the dist/build message when a dist/, build/ or out/      *)
(* folder is present, with the build-first message otherwise.              *)
HasBuildFolder ==
  \E p \in ManifestPathSet :
    StartsWith(p, "dist/") \/ StartsWith(p, "build/") \/ StartsWith(p, "out/")

C22_SourceUploadWarning ==
  (/\ analysis # Null
   /\ fixes = 0
   /\ "package.json" \in ManifestPathSet
   /\ "index.html" \notin ManifestPathSet
   /\ \A k \in 1..5 : ~RuleMatches(RuleOrder[k], ManifestPathSet)) =>
    IF HasBuildFolder
    THEN SourceWarning \in Range(analysis.warnings)
    ELSE BuildWarning \in Range(analysis.warnings)

(* C23: generateAutoFixes returns a workflow patch at                      *)
(* .github/workflows/deploy.yml exactly when the project type is neither   *)
(* Static Website nor Unknown; for these two types the patch list is       *)
(* empty, so no patch holds a 404-fallback step.                           *)
Generated == analysis # Null /\ ~stale /\ pending = {}

WorkflowPatches == { k \in DOMAIN patches : patches[k].path = ".github/workflows/deploy.yml" }

C23_WorkflowPatch ==
  Generated =>
    /\ WorkflowPatches # {} <=> analysis.projectType \notin {"Static Website", "Unknown"}
    /\ Cardinality(WorkflowPatches) <= 1
    /\ analysis.projectType \in {"Static Website", "Unknown"} => patches = << >>

\* A project of unknown type, after the patches were generated.
C23_Witness ==
  /\ Generated
  /\ analysis.projectType = "Unknown"
  /\ Len(analysis.files) > 0
  /\ patches = << >>

(* C24: the workflow patch holds the step 'Create 404 fallback' exactly    *)
(* when the project type is Vite, Create React App, Vue or Angular; the    *)
(* step then occurs once, immediately before the step 'Upload artifact';   *)
(* for Next.js and Node.js Project the workflow patch is without it.       *)
Occurrences(s, p) == { i \in 0..(Len(s) - Len(p)) : SubSeq(s, i + 1, i + Len(p)) = p }

C24_FallbackStep ==
  Generated =>
    /\ \A k \in WorkflowPatches :
         LET content == patches[k].content
             fallback == Occurrences(content, "- name: Create 404 fallback\n")
             upload == Occurrences(content, "- name: Upload artifact\n")
             steps == Occurrences(content, "- name: ")
         IN  /\ fallback # {} <=> analysis.projectType \in {"Vite", "Create React App",
                                                            "Vue", "Angular"}
             /\ fallback # {} =>
                  /\ Cardinality(fallback) = 1
                  /\ Cardinality(upload) = 1
                  /\ \E i \in fallback, j \in upload :
                       i < j /\ ~\E m \in steps : i < m /\ m < j
    /\ analysis.projectType \in {"Next.js", "Node.js Project"} => WorkflowPatches # {}

\* An Angular project whose workflow has the fallback step.
C24_Witness ==
  /\ Generated
  /\ analysis.projectType = "Angular"
  /\ \E k \in WorkflowPatches :
       Includes(patches[k].content, "cp dist/site/index.html dist/site/404.html || true")

(* C25: fixAbsolutePaths returns a new analysis and leaves the one it is   *)
(* given as it was (files, every file's entry and size, warnings); the     *)
(* result has the same manifest paths in the same order, and the same      *)
(* warnings without the absolute-path warning.                             *)
PathsOf(a) == [k \in DOMAIN a.files |-> a.files[k].path]

ProgressEvents == SelectSeq(events, LAMBDA e : e.progress # -1)

Batches(n) == (n + BATCH_SIZE - 1) \div BATCH_SIZE

BlobPhaseOver == pc \notin {"start", "getAuthenticated", "createRepo", "getRepo", "prepare",
                            "getRef", "getCommit", "blobs", "failed"}

ProgressOrder ==
  LET n == Len(filesToUpload)
      p == ProgressEvents
  IN  /\ Len(p) <= Batches(n)
      /\ \A f \in 1..n :
           /\ upState[f] # "pending" => (f - 1) \div BATCH_SIZE <= Len(p)
           /\ (f - 1) \div BATCH_SIZE < Len(p) => upState[f] = "done"
      /\ BlobPhaseOver => Len(p) = Batches(n)

ProgressValues ==
  LET n == Len(filesToUpload)
      p == ProgressEvents
  IN  /\ \A k \in 1..Len(p) :
           /\ p[k].progress = (200 * Min(BATCH_SIZE * k, n) + n) \div (2 * n)
           /\ p[k].progress \in 0..100
      /\ (BlobPhaseOver /\ n > 0) => p[Len(p)].progress = 100

C26_ProgressStrict ==
  provider = "github" =>
    /\ ProgressOrder
    /\ ProgressValues
    /\ \A k \in 2..Len(ProgressEvents) :
         ProgressEvents[k - 1].progress < ProgressEvents[k].progress

C26_Progress ==
  provider = "github" =>
    /\ ProgressOrder
    /\ ProgressValues
    /\ \A k \in 2..Len(ProgressEvents) :
         /\ ProgressEvents[k - 1].progress <= ProgressEvents[k].progress
         /\ Len(filesToUpload) <= 200 =>
              ProgressEvents[k - 1].progress < ProgressEvents[k].progress

\* Two batches uploaded, the second after a retry, and the tree requested.
C26_Witness ==
  /\ provider = "github"
  /\ pc = "createTree"
  /\ Len(filesToUpload) = BATCH_SIZE + 1
  /\ failures > 0
  /\ Len(ProgressEvents) = 2
  /\ ProgressEvents[1].progress = 83

(* C27: the tree-create call carries a base tree exactly when a prior      *)
(* commit was found on the branch, and the commit-create call carries that *)
(* commit as its one parent under the same condition: base tree and parent *)
(* are set or unset together.                                              *)
TreeRequested == provider = "github" /\ calls["createTree"] > 0

C27_BaseTreeAndParent ==
  TreeRequested =>
    /\ baseTreeSha # "" <=> latestCommitSha # ""
    /\ latestCommitSha # "" => latestCommitSha = "commit0" /\ baseTreeSha = "tree0"

(* C28: after a successful deployment onto a branch that had a commit, the *)
(* branch points at the new commit and the files reachable from it are     *)
(* exactly the prepared upload set: a file of the prior tree only is no    *)
(* longer published.                                                       *)

\* The paths of the tree of the branch's prior commit.
PriorTreePaths == {"index.html", "old.html"}

\* The tree the provider builds for createTree: the entries of the call
\* over those of base_tree, when the call carries one.
CreatedTreePaths ==
  (IF baseTreeSha # "" THEN PriorTreePaths ELSE {})
    \cup { item.path : item \in BagToSet(treeItems) }

RefUpdated ==
  /\ provider = "github"
  /\ calls["updateRef"] > 0
  /\ "updateRef" \notin failedOps
  /\ pc # "updateRef"

C28_FullReplace ==
  (RefUpdated /\ latestCommitSha # "") =>
    CreatedTreePaths = { filesToUpload[f].path : f \in DOMAIN filesToUpload }

(* C29: within one deployment every provider operation other than a Git   *)
(* blob create is attempted at most once: authenticate, repository create, *)
(* repository read, ref read, commit read, tree create, commit create, ref *)
(* update, hosting enable, hosting read, version create, populate-files,   *)
(* finalize and release; a file upload to the hosting store is requested   *)
(* once per required hash at most.                                         *)
C29_AttemptedOnce ==
  /\ \A op \in Ops \ {"createBlob", "upload"} : calls[op] <= 1
  /\ calls["upload"] <= Len(requiredHashes)

\* A Git deployment that ended well after a blob create was retried.
C29_Witness ==
  /\ provider = "github"
  /\ pc = "done"
  /\ failures > 0
  /\ calls["createBlob"] > Len(filesToUpload)
  /\ \A op \in {"getAuthenticated", "createForAuthenticatedUser", "getRef", "createTree",
                "createCommit", "updateRef", "createPagesSite"} : calls[op] = 1

(* C30: once a deployment has emitted its error event it issues no         *)
(* further provider request: when one upload of a batch has exhausted its  *)
(* attempts, the other uploads of the batch start no further attempt.      *)
C30_NoRequestAfterError ==
  [][ErrorEvents # {} => calls' = calls]_vars

(* C31: an archive classified Unknown gets exactly one of two warnings:    *)
(* the nested-index warning, naming the first manifest path that ends in   *)
(* '/index.html', when there is such a path, the 'No index.html found'     *)
(* warning otherwise; no other project type gets either of them.           *)
NestedPaths == { k \in DOMAIN analysis.files : EndsWith(analysis.files[k].path, "/index.html") }

NestedWarnings ==
  { k \in DOMAIN analysis.warnings :
      \E j \in NestedPaths : analysis.warnings[k] = NestedWarning(analysis.files[j].path) }

C31_UnknownWarning ==
  analysis # Null =>
    IF analysis.projectType = "Unknown"
    THEN /\ Cardinality(NestedWarnings) + CountOf(analysis.warnings, NoIndexWarning) = 1
         /\ NestedPaths # {} =>
              LET first == CHOOSE k \in NestedPaths : \A j \in NestedPaths : k <= j
              IN  CountOf(analysis.warnings, NestedWarning(analysis.files[first].path)) = 1
         /\ NestedPaths = {} => NoIndexWarning \in Range(analysis.warnings)
    ELSE /\ NestedWarnings = {}
         /\ NoIndexWarning \notin Range(analysis.warnings)
         /\ \A k \in DOMAIN analysis.warnings :
              ~StartsWith(analysis.warnings[k], "'index.html' found at")

\* An archive of unknown type with an index.html one folder down.
C31_Witness ==
  /\ analysis # Null
  /\ analysis.projectType = "Unknown"
  /\ NestedWarning("docs/index.html") \in Range(analysis.warnings)
  /\ NoIndexWarning \notin Range(analysis.warnings)

(* C32: generateAutoFixes makes a framework config patch only to add what  *)
(* is absent.  For Vite: a patch on the existing config only when its text *)
(* has no base option ('base:'), a new vite.config.js only when the        *)
(* manifest has no Vite config.  For Next.js: a patch on the existing      *)
(* config only when its text has no static-export marker.  For Create      *)
(* React App: no patch of package.json.  A config that holds the option    *)
(* gets no config patch.                                                   *)
ConfigPatches == (DOMAIN patches) \ WorkflowPatches

ViteConfigs ==
  { k \in DOMAIN analysis.files :
      EndsWith(analysis.files[k].path, "vite.config.js")
      \/ EndsWith(analysis.files[k].path, "vite.config.ts") }

NextConfigs ==
  { k \in DOMAIN analysis.files :
      \E n \in {"next.config.js", "next.config.mjs", "next.config.ts"} :
        EndsWith(analysis.files[k].path, n) }

FirstOf(S) == CHOOSE k \in S : \A j \in S : k <= j

HasExport(text) == Includes(text, "output: 'export'") \/ Includes(text, "output: \"export\"")

C32_ConfigPatchOnlyIfAbsent ==
  Generated =>
    /\ Cardinality(ConfigPatches) <= 1
    /\ \A k \in ConfigPatches :
         \/ /\ analysis.projectType = "Vite"
            /\ ViteConfigs = {}
            /\ patches[k].path = "vite.config.js"
            /\ Includes(patches[k].content, "base:")
         \/ /\ analysis.projectType = "Vite"
            /\ ViteConfigs # {}
            /\ patches[k].path = analysis.files[FirstOf(ViteConfigs)].path
            /\ ~Includes(analysis.files[FirstOf(ViteConfigs)].content, "base:")
            /\ Includes(patches[k].content, "base:")
         \/ /\ analysis.projectType = "Next.js"
            /\ NextConfigs # {}
            /\ patches[k].path = analysis.files[FirstOf(NextConfigs)].path
            /\ ~HasExport(analysis.files[FirstOf(NextConfigs)].content)
            /\ HasExport(patches[k].content)
    /\ analysis.projectType = "Create React App" => ConfigPatches = {}

\* A Vite project whose config has a base option: the workflow patch only.
C32_Witness ==
  /\ Generated
  /\ analysis.projectType = "Vite"
  /\ ViteConfigs # {}
  /\ Includes(analysis.files[FirstOf(ViteConfigs)].content, "base:")
  /\ WorkflowPatches # {}
  /\ ConfigPatches = {}

(* C33: if every provider call returns, every deployment on either backend *)
(* ends, returning a URL or raising after its error event; a file's upload *)
(* is attempted 3 times at most, and a deployment that ended well went     *)
(* through every prepared file once.                                       *)
Ended == pc \in {"done", "failed"}

C33_Terminates ==
  /\ <>Ended
  /\ [](pc = "done" => result # "" /\ ErrorEvents = {})
  /\ [](pc = "failed" => ErrorEvents # {} /\ result = "")
  /\ [](calls["createBlob"] <= 3 * Cardinality(Started))
  /\ []((provider = "github" /\ pc = "done") =>
          /\ \A f \in DOMAIN filesToUpload : upState[f] = "done"
          /\ BagCardinality(treeItems) = Len(filesToUpload))
  /\ []((provider = "firebase" /\ pc = "done") =>
          calls["upload"] = Len(requiredHashes))

\* A Git deployment of two batches that ended well after three failed attempts.
C33_Witness ==
  /\ provider = "github"
  /\ pc = "done"
  /\ Len(filesToUpload) > BATCH_SIZE
  /\ failures = 3
  /\ result # ""

(* C34: when the blob phase has completed, the tree-entry list passed to   *)
(* tree create holds one entry per prepared file, with the file's path and *)
(* the hash of the file's content, whatever the order of completions and   *)
(* retries; with no patches and no custom domain a manifest of n files     *)
(* gives n tree entries, one commit-create and one ref-update call.        *)
RECURSIVE EntriesOf(_)
EntriesOf(files) ==
  IF files = << >> THEN EmptyBag
  ELSE SetToBag({[path |-> Head(files).path, sha |-> <<"blob", Head(files).content>>]})
         (+) EntriesOf(Tail(files))

C34_TreeEntries ==
  (provider = "github" /\ calls["createTree"] > 0) =>
    /\ treeItems = EntriesOf(filesToUpload)
    /\ (pc = "done" /\ patches = << >> /\ customDomain = << >>) =>
         /\ BagCardinality(treeItems) = Len(analysis.files)
         /\ calls["createCommit"] = 1
         /\ calls["updateRef"] = 1

\* Two batches, uploads retried, no patch and no domain: six tree entries.
C34_Witness ==
  /\ provider = "github"
  /\ pc = "done"
  /\ patches = << >>
  /\ customDomain = << >>
  /\ failures > 1
  /\ Len(analysis.files) = BATCH_SIZE + 1
  /\ BagCardinality(treeItems) = BATCH_SIZE + 1

(* C35: the prepared upload set of the Git backend never holds two entries *)
(* with the same path: when the manifest or a patch has a file at 'CNAME'  *)
(* and a custom domain is given, the marker adds no second 'CNAME' entry.  *)
C35_UniquePaths ==
  provider = "github" =>
    \A i, j \in DOMAIN filesToUpload :
      filesToUpload[i].path = filesToUpload[j].path => i = j

(* C36: on every successful deployment of either backend the last event   *)
(* passed to onStatus is the success event 'Deployment complete!' whose    *)
(* details is the URL the call returns, and every event before it has type *)
(* info or success.                                                        *)
C36_CompleteIsLast ==
  pc = "done" =>
    /\ events # << >>
    /\ events[Len(events)].step = "Deployment complete!"
    /\ events[Len(events)].type = "success"
    /\ events[Len(events)].details = result
    /\ result # ""
    /\ \A k \in 1..(Len(events) - 1) :
         /\ events[k].type \in {"info", "success"}
         /\ events[k].step # "Deployment complete!"

\* A Git deployment that returned the URL the hosting read gave.
C36_Witness ==
  /\ provider = "github"
  /\ pc = "done"
  /\ result # DefaultPagesUrl(owner, repoName)
  /\ events[Len(events)].details = result
  /\ failures > 0

(* C37: in the workflow patch for Vite, Create React App, Vue and Angular   *)
(* the directory of the 404-fallback copy command is the directory named   *)
(* in the path of the 'Upload artifact' step: dist, build, dist and        *)
(* dist/<repoName>, for every repository name.                             *)
SpaDirs ==
  CASE analysis.projectType = "Create React App" -> {"build"}
    [] analysis.projectType = "Angular" -> { "dist/" \o name : name \in RepoNames \ {""} }
    [] OTHER -> {"dist"}

C38_PatchesAreCurrent ==
  (~stale /\ pending = {}) =>
    patches = IF analysis # Null /\ nameInput # ""
              THEN generateAutoFixes(analysis, nameInput)
              ELSE << >>

(* C39: in the common-root detection the candidate prefix (the common     *)
(* start of the first and the last path in sort order, cut after its last  *)
(* '/') is a prefix of every entry path, so the check on every entry never *)
(* rejects it, and the root that is stripped is the longest directory      *)
(* prefix shared by all entries.                                           *)
Candidate(P) ==
  LET first == CHOOSE p \in P : \A q \in P : ~StrLess(q, p)
      last == CHOOSE p \in P : \A q \in P : ~StrLess(p, q)
  IN  PotentialPrefix(SubSeq(first, 1, MatchLen(first, last, 0)))

C39_CandidateNeverRejected ==
  (analysis # Null /\ RawPaths # {}) =>
    /\ \A p \in RawPaths : StartsWith(p, Candidate(RawPaths))
    /\ CommonPrefix(RawFiles(archive)) = Candidate(RawPaths)
    /\ Candidate(RawPaths) = LongestWrapper(RawPaths)

\* Three entries under site/: the candidate is cut from site/app.js and
\* site/index.html, and site/css/style.css lies between them.
C39_Witness ==
  /\ analysis # Null
  /\ RawPaths = {"site/index.html", "site/app.js", "site/css/style.css"}
  /\ Candidate(RawPaths) = "site/"
  /\ AnalysisPaths = {"index.html", "app.js", "css/style.css"}

====
